---- MODULE Spec2Model ----
(***************************************************************************)
(* Graph store (react/src/models/GraphModels.ts) and the step-recording    *)
(* traversal algorithms (react/src/models/GraphAlgorithms.ts, the second,  *)
(* unified set of definitions at lines 323-689).                           *)
(*                                                                         *)
(* Encoding of JavaScript values:                                          *)
(*   - a string is a TLA+ string; `${s}-${t}` is s \o "-" \o t;            *)
(*   - an optional value (T | undefined, T | null) is a set with at most   *)
(*     one element: {} is undefined/null, {x} is x;                        *)
(*   - a Map or a Set is a sequence in insertion order (the iteration      *)
(*     order JavaScript guarantees), without duplicate keys/members;       *)
(*   - a reference to the Node record with id i, as it is stored in an     *)
(*     edge record by the d3 link force, is the string "@" \o i, which is  *)
(*     `===` to no node id of NodeIds.                                     *)
(***************************************************************************)
EXTENDS Integers, Sequences, FiniteSets, TLC

\* Bounds of the model.
MaxEdges == 2
MaxWeight == 1
\* The edges of a graph that is only built, never taken apart.
MaxBuiltEdges == 3
\* The entries of the hash table's operations log before the user clears it.
MaxOperations == 1

\* The node ids callers pass.  "" is the empty string (falsy in JavaScript);
\* "a" and "a-a" make `${s}-${t}` ambiguous: "a" + "-" + "a-a" = "a-a" + "-" + "a".
NodeIds == {"", "a", "a-a"}
Weights == 0..MaxWeight
Undefined == {}
Null == {}
\* The weight argument of addEdge: a number, or omitted.
GivenWeights == {{x} : x \in Weights}
WeightArgs == {Undefined} \cup GivenWeights

VARIABLES
  graph,        \* the Graph object: nodes, edges, adjacencyList, directed, weighted
  ret,          \* the call in progress or just finished: its name and, for a store call, what it returned or threw
  pc,           \* "idle", inside a traversal ("bfs", "dfs", "dijkstra", "dijkstraEnd"), or "returned"
  startNodeId,  \* the startNodeId / sourceId argument of the traversal call
  visited,      \* BFS/DFS: const visited = new Set<string>()
  queue,        \* BFS: const queue: string[]
  stack,        \* DFS: const stack: string[]
  S,            \* Dijkstra: const S = new Set<string>()
  dist,         \* Dijkstra: const dist = new Map<string, number>()
  parent,       \* Dijkstra: const parent = new Map<string, string | null>()
  step,         \* Dijkstra: the loop counter of the main for loop
  steps,        \* const steps: the snapshots pushed so far; the call's result once pc = "returned"
  \* GraphPage (react/src/components/GraphPage.tsx): its useState values and timerRef
  algorithm,    \* "bfs", "dfs" or "dijkstra"
  startNode,    \* the value of the start-node select
  isRunning,
  stepIndex,
  pageSteps,    \* the state named steps: the step sequence on display
  timerRef,     \* {} for null, else the interval: {n} with n the steps.length its callback captured
  \* HashTableVisualization (unnamed/part_002): its useState values
  bucketSize,
  inputKey,
  hashTable,
  operations,
  hashFunction,
  collisionStrategy

locals == <<startNodeId, visited, queue, stack, S, dist, parent, step, steps>>
pageVars == <<algorithm, startNode, isRunning, stepIndex, pageSteps, timerRef>>
tableVars == <<bucketSize, inputKey, hashTable, operations, hashFunction, collisionStrategy>>
vars == <<graph, ret, pc, startNodeId, visited, queue, stack, S, dist, parent, step, steps,
          algorithm, startNode, isRunning, stepIndex, pageSteps, timerRef,
          bucketSize, inputKey, hashTable, operations, hashFunction, collisionStrategy>>

-----------------------------------------------------------------------------
\* Generic helpers for insertion-ordered Maps and Sets.

Range(s) == {s[i] : i \in 1..Len(s)}

\* Set.prototype.add: appends unless already a member.
SetAdd(s, x) == IF x \in Range(s) THEN s ELSE Append(s, x)

\* Set.prototype.delete / Map.prototype.delete on the member list.
SetDelete(s, x) == SelectSeq(s, LAMBDA y : y # x)

\* Array.prototype.indexOf, 1-based; 0 stands for -1.
IndexOf(s, x) ==
  IF x \in Range(s) THEN CHOOSE i \in 1..Len(s) : s[i] = x /\ \A j \in 1..(i-1) : s[j] # x
  ELSE 0

-----------------------------------------------------------------------------
\* Graph: constructor and lookups.

NewGraph(d, w) ==
  [nodes |-> <<>>, edges |-> <<>>, adjacencyList |-> <<>>, directed |-> d, weighted |-> w]

\* this.nodes.has(id)
HasNode(g, id) == \E i \in 1..Len(g.nodes) : g.nodes[i].id = id

\* this.edges.has(edgeId): the Map key of an edge record is its id field.
HasEdgeId(g, edgeId) == \E i \in 1..Len(g.edges) : g.edges[i].id = edgeId

\* this.adjacencyList.get(id): {} when the key is absent.
AdjGet(g, id) == {g.adjacencyList[i].adjacentNodes :
                    i \in {j \in 1..Len(g.adjacencyList) : g.adjacencyList[j].nodeId = id}}

\* this.adjacencyList.get(id)?.add(x)
AdjAdd(adj, id, x) ==
  [i \in 1..Len(adj) |->
     IF adj[i].nodeId = id
     THEN [adj[i] EXCEPT !.adjacentNodes = SetAdd(@, x)]
     ELSE adj[i]]

\* this.adjacencyList.get(id)?.delete(x)
AdjDelete(adj, id, x) ==
  [i \in 1..Len(adj) |->
     IF adj[i].nodeId = id
     THEN [adj[i] EXCEPT !.adjacentNodes = SetDelete(@, x)]
     ELSE adj[i]]

EdgeId(sourceId, targetId) == sourceId \o "-" \o targetId

-----------------------------------------------------------------------------
\* Graph: the operations.  Each returns the graph after the call and the
\* call's outcome: threw = TRUE when the call throws, value = what it returns.

addNode(g, id, label) ==
  IF HasNode(g, id)
  THEN [graph |-> g, threw |-> TRUE, value |-> "Node with id " \o id \o " already exists"]
  ELSE [graph |-> [g EXCEPT !.nodes = Append(@, [id |-> id, label |-> label]),
                            !.adjacencyList = Append(@, [nodeId |-> id, adjacentNodes |-> <<>>])],
        threw |-> FALSE, value |-> id]

getNode(g, id) == {g.nodes[i] : i \in {j \in 1..Len(g.nodes) : g.nodes[j].id = id}}

\* Mutants of removeNode: one leaves id in the other nodes' adjacency sets, one
\* removes only the edges that start at id.
removeNode_KeepsAdjacencyMembers(g, id) ==
  IF ~HasNode(g, id)
  THEN [graph |-> g, threw |-> FALSE, value |-> "false"]
  ELSE [graph |->
          [g EXCEPT
             !.edges = SelectSeq(@, LAMBDA e : ~(e.source = id \/ e.target = id)),
             !.adjacencyList = SelectSeq(@, LAMBDA a : a.nodeId # id),
             !.nodes = SelectSeq(@, LAMBDA n : n.id # id)],
        threw |-> FALSE, value |-> "true"]

removeNode_OutgoingEdgesOnly(g, id) ==
  IF ~HasNode(g, id)
  THEN [graph |-> g, threw |-> FALSE, value |-> "false"]
  ELSE [graph |->
          [g EXCEPT
             !.edges = SelectSeq(@, LAMBDA e : ~(e.source = id)),
             !.adjacencyList =
                LET kept == SelectSeq(@, LAMBDA a : a.nodeId # id)
                IN [i \in 1..Len(kept) |->
                      [kept[i] EXCEPT !.adjacentNodes = SetDelete(@, id)]],
             !.nodes = SelectSeq(@, LAMBDA n : n.id # id)],
        threw |-> FALSE, value |-> "true"]

removeNode(g, id) ==
  IF ~HasNode(g, id)
  THEN [graph |-> g, threw |-> FALSE, value |-> "false"]
  ELSE [graph |->
          [g EXCEPT
             !.edges = SelectSeq(@, LAMBDA e : ~(e.source = id \/ e.target = id)),
             !.adjacencyList =
                LET kept == SelectSeq(@, LAMBDA a : a.nodeId # id)
                IN [i \in 1..Len(kept) |->
                      [kept[i] EXCEPT !.adjacentNodes = SetDelete(@, id)]],
             !.nodes = SelectSeq(@, LAMBDA n : n.id # id)],
        threw |-> FALSE, value |-> "true"]

\* Mutant of addEdge: the duplicate check is missing.
addEdge_NoDuplicateCheck(g, sourceId, targetId, weight) ==
  IF ~HasNode(g, sourceId) \/ ~HasNode(g, targetId)
  THEN [graph |-> g, threw |-> TRUE, value |-> "Source or target node does not exist"]
  ELSE LET edge == [id |-> EdgeId(sourceId, targetId),
                    source |-> sourceId,
                    target |-> targetId,
                    directed |-> g.directed,
                    weight |-> IF g.weighted THEN weight ELSE Undefined]
           adj1 == AdjAdd(g.adjacencyList, sourceId, targetId)
           adj2 == IF ~g.directed THEN AdjAdd(adj1, targetId, sourceId) ELSE adj1
       IN [graph |-> [g EXCEPT !.edges = Append(@, edge), !.adjacencyList = adj2],
           threw |-> FALSE, value |-> edge.id]

addEdge(g, sourceId, targetId, weight) ==
  IF ~HasNode(g, sourceId) \/ ~HasNode(g, targetId)
  THEN [graph |-> g, threw |-> TRUE, value |-> "Source or target node does not exist"]
  ELSE IF HasEdgeId(g, EdgeId(sourceId, targetId))
  THEN [graph |-> g, threw |-> TRUE,
        value |-> "Edge from " \o sourceId \o " to " \o targetId \o " already exists"]
  ELSE LET edge == [id |-> EdgeId(sourceId, targetId),
                    source |-> sourceId,
                    target |-> targetId,
                    directed |-> g.directed,
                    weight |-> IF g.weighted THEN weight ELSE Undefined]
           adj1 == AdjAdd(g.adjacencyList, sourceId, targetId)
           adj2 == IF ~g.directed THEN AdjAdd(adj1, targetId, sourceId) ELSE adj1
       IN [graph |-> [g EXCEPT !.edges = Append(@, edge), !.adjacencyList = adj2],
           threw |-> FALSE, value |-> edge.id]

getEdge(g, sourceId, targetId) ==
  {g.edges[i] : i \in {j \in 1..Len(g.edges) : g.edges[j].id = EdgeId(sourceId, targetId)}}

removeEdge(g, sourceId, targetId) ==
  IF ~HasEdgeId(g, EdgeId(sourceId, targetId))
  THEN [graph |-> g, threw |-> FALSE, value |-> "false"]
  ELSE LET adj1 == AdjDelete(g.adjacencyList, sourceId, targetId)
           adj2 == IF ~g.directed THEN AdjDelete(adj1, targetId, sourceId) ELSE adj1
       IN [graph |-> [g EXCEPT !.edges = SelectSeq(@, LAMBDA e : e.id # EdgeId(sourceId, targetId)),
                               !.adjacencyList = adj2],
           threw |-> FALSE, value |-> "true"]

getGraphData(g) ==
  [nodes |-> g.nodes, edges |-> g.edges, directed |-> g.directed, weighted |-> g.weighted]

\* Fill matrix based on edges: the edges from index k on still to do.
RECURSIVE FillMatrix(_, _, _, _)
FillMatrix(g, nodeIds, k, matrix) ==
  IF k > Len(g.edges) THEN matrix
  ELSE LET edge == g.edges[k]
           sourceIndex == IndexOf(nodeIds, edge.source)
           targetIndex == IndexOf(nodeIds, edge.target)
           cell == IF g.weighted /\ edge.weight # Undefined
                   THEN CHOOSE w \in edge.weight : TRUE
                   ELSE 1
           m1 == [matrix EXCEPT ![sourceIndex][targetIndex] = cell]
           m2 == IF ~g.directed THEN [m1 EXCEPT ![targetIndex][sourceIndex] = cell] ELSE m1
       IN IF sourceIndex # 0 /\ targetIndex # 0
          THEN FillMatrix(g, nodeIds, k + 1, m2)
          ELSE FillMatrix(g, nodeIds, k + 1, matrix)

getAdjacencyMatrix(g) ==
  LET nodeIds == [i \in 1..Len(g.nodes) |-> g.nodes[i].id]
      zeros == [i \in 1..Len(nodeIds) |-> [j \in 1..Len(nodeIds) |-> 0]]
  IN FillMatrix(g, nodeIds, 1, zeros)

getAdjacencyList(g) == g.adjacencyList

-----------------------------------------------------------------------------
\* GraphAlgorithms.ts, second set of definitions.  A description is the string
\* the code builds, with the arrow of the BFS/DFS edge texts written "->".

\* JavaScript's Infinity: a number larger than every finite path length of the model.
Infinity == 1000000

\* String(x) for a distance.
NumStr(d) == IF d = Infinity THEN "Infinity" ELSE ToString(d)

\* x || y for an optional string / a number: null, undefined, "" and 0 are falsy.
Truthy(opt) == opt # {} /\ opt # {""}
OrInfinity(d) == IF d = 0 THEN Infinity ELSE d
OrZero(d) == d

\* Mutant of StartFound: only checks that the graph has nodes.
StartFound_AnyNode(g, id) == Len(getGraphData(g).nodes) > 0

\* graphData.nodes.find((node) => node.id === startNodeId), as a boolean
StartFound(g, id) == \E i \in 1..Len(getGraphData(g).nodes) : getGraphData(g).nodes[i].id = id

\* adjList.find((item) => item.nodeId === currentNode)?.adjacentNodes || []
AdjacentNodes(g, currentNode) ==
  LET adjList == getAdjacencyList(g)
      hits == {i \in 1..Len(adjList) : adjList[i].nodeId = currentNode}
  IN IF hits = {} THEN <<>>
     ELSE adjList[CHOOSE i \in hits : \A j \in hits : i <= j].adjacentNodes

TraversalNotFound(field, id) ==
  IF field = "queue"
  THEN [visited |-> <<>>, current |-> Null, queue |-> <<>>, sourceNode |-> Null, targetNode |-> Null,
        description |-> "Error: Start node " \o id \o " not found in the graph."]
  ELSE [visited |-> <<>>, current |-> Null, stack |-> <<>>, sourceNode |-> Null, targetNode |-> Null,
        description |-> "Error: Start node " \o id \o " not found in the graph."]

BfsStep(v, cur, q, src, tgt, text) ==
  [visited |-> v, current |-> cur, queue |-> q, sourceNode |-> src, targetNode |-> tgt,
   description |-> text]

DfsStep(v, cur, st, src, tgt, text) ==
  [visited |-> v, current |-> cur, stack |-> st, sourceNode |-> src, targetNode |-> tgt,
   description |-> text]

DijkstraStep(v, cur, d, p, text) ==
  [visited |-> v, current |-> cur, distances |-> d, previous |-> p, description |-> text]

\* for (const neighborId of adjacentNodes) { ... } of breadthFirstTraversal:
\* st = [visited, queue, steps], the neighbours from index i on still to do.
RECURSIVE BfsNeighbors(_, _, _, _)
BfsNeighbors(adjacentNodes, i, currentNode, st) ==
  IF i > Len(adjacentNodes) THEN st
  ELSE LET neighborId == adjacentNodes[i]
       IN IF neighborId \notin Range(st.visited)
          THEN LET v == SetAdd(st.visited, neighborId)
                   q == Append(st.queue, neighborId)
               IN BfsNeighbors(adjacentNodes, i + 1, currentNode,
                    [visited |-> v, queue |-> q,
                     steps |-> Append(st.steps,
                       BfsStep(v, {currentNode}, q, {currentNode}, {neighborId},
                         "Discover: Mark node " \o neighborId \o " as visited and enqueue. Edge ("
                           \o currentNode \o " -> " \o neighborId \o ")."))])
          ELSE BfsNeighbors(adjacentNodes, i + 1, currentNode,
                    [st EXCEPT !.steps = Append(@,
                       BfsStep(st.visited, {currentNode}, st.queue, {currentNode}, {neighborId},
                         "Skip: Node " \o neighborId \o " already visited. Edge ("
                           \o currentNode \o " -> " \o neighborId \o ")."))])

\* Mutant of BfsIteration: the neighbours are examined last to first.
BfsIteration_ReversedNeighbors(g, st) ==
  LET currentNode == Head(st.queue)
      q == Tail(st.queue)
      s1 == Append(st.steps,
              BfsStep(st.visited, {currentNode}, q, Null, Null,
                "Process: Dequeue and examine node " \o currentNode \o "."))
      adj == AdjacentNodes(g, currentNode)
      adjacentNodes == [i \in 1..Len(adj) |-> adj[Len(adj) + 1 - i]]
      s2 == IF Len(adjacentNodes) = 0
            THEN Append(s1,
                   BfsStep(st.visited, {currentNode}, q, Null, Null,
                     "Observe: Node " \o currentNode \o " has no unvisited neighbors."))
            ELSE s1
  IN BfsNeighbors(adjacentNodes, 1, currentNode, [visited |-> st.visited, queue |-> q, steps |-> s2])

\* Mutant of BfsIteration: the node examined is taken from the end of the queue.
BfsIteration_TakesLast(g, st) ==
  LET currentNode == st.queue[Len(st.queue)]
      q == SubSeq(st.queue, 1, Len(st.queue) - 1)
      s1 == Append(st.steps,
              BfsStep(st.visited, {currentNode}, q, Null, Null,
                "Process: Dequeue and examine node " \o currentNode \o "."))
      adjacentNodes == AdjacentNodes(g, currentNode)
      s2 == IF Len(adjacentNodes) = 0
            THEN Append(s1,
                   BfsStep(st.visited, {currentNode}, q, Null, Null,
                     "Observe: Node " \o currentNode \o " has no unvisited neighbors."))
            ELSE s1
  IN BfsNeighbors(adjacentNodes, 1, currentNode, [visited |-> st.visited, queue |-> q, steps |-> s2])

\* One iteration of while (queue.length > 0) of breadthFirstTraversal.
BfsIteration(g, st) ==
  LET currentNode == Head(st.queue)
      q == Tail(st.queue)
      s1 == Append(st.steps,
              BfsStep(st.visited, {currentNode}, q, Null, Null,
                "Process: Dequeue and examine node " \o currentNode \o "."))
      adjacentNodes == AdjacentNodes(g, currentNode)
      s2 == IF Len(adjacentNodes) = 0
            THEN Append(s1,
                   BfsStep(st.visited, {currentNode}, q, Null, Null,
                     "Observe: Node " \o currentNode \o " has no unvisited neighbors."))
            ELSE s1
  IN BfsNeighbors(adjacentNodes, 1, currentNode, [visited |-> st.visited, queue |-> q, steps |-> s2])

\* Mutant of DfsNextNode: the first neighbour is taken, visited or not.
DfsNextNode_IgnoresVisited(adjacentNodes, v) ==
  IF Len(adjacentNodes) = 0 THEN Null ELSE {adjacentNodes[1]}

\* let nextNode = null; for (const neighborId of adjacentNodes) if (!visited.has(..)) {..; break}
DfsNextNode(adjacentNodes, v) ==
  LET unvisited == {i \in 1..Len(adjacentNodes) : adjacentNodes[i] \notin Range(v)}
  IN IF unvisited = {} THEN Null
     ELSE {adjacentNodes[CHOOSE i \in unvisited : \A j \in unvisited : i <= j]}

\* Mutant of DfsIteration: backtracking leaves the exhausted node on the stack.
DfsIteration_NoPop(g, st) ==
  LET currentNode == st.stack[Len(st.stack)]
      adjacentNodes == AdjacentNodes(g, currentNode)
      nextNode == DfsNextNode(adjacentNodes, st.visited)
  IN IF Truthy(nextNode)
     THEN LET n == CHOOSE x \in nextNode : TRUE
              v == SetAdd(st.visited, n)
              k == Append(st.stack, n)
          IN [visited |-> v, stack |-> k,
              steps |-> Append(st.steps,
                DfsStep(v, {n}, k, {currentNode}, {n},
                  "Expand: Found unvisited node " \o n
                    \o ". Mark as visited and push to stack. Edge (" \o currentNode \o " -> " \o n \o ")."))]
     ELSE [visited |-> st.visited, stack |-> st.stack,
           steps |-> Append(st.steps,
             DfsStep(st.visited, {currentNode}, st.stack, {currentNode}, {currentNode},
               "Backtrack: No unvisited neighbors for " \o currentNode
                 \o ". Return to node " \o currentNode \o "."))]

\* One iteration of while (stack.length > 0) of depthFirstTraversal.
DfsIteration(g, st) ==
  LET currentNode == st.stack[Len(st.stack)]
      adjacentNodes == AdjacentNodes(g, currentNode)
      nextNode == DfsNextNode(adjacentNodes, st.visited)
  IN IF Truthy(nextNode)
     THEN LET n == CHOOSE x \in nextNode : TRUE
              v == SetAdd(st.visited, n)
              k == Append(st.stack, n)
          IN [visited |-> v, stack |-> k,
              steps |-> Append(st.steps,
                DfsStep(v, {n}, k, {currentNode}, {n},
                  "Expand: Found unvisited node " \o n
                    \o ". Mark as visited and push to stack. Edge (" \o currentNode \o " -> " \o n \o ")."))]
     ELSE LET backtrackNode == currentNode
              k == SubSeq(st.stack, 1, Len(st.stack) - 1)
          IN [visited |-> st.visited, stack |-> k,
              steps |-> Append(st.steps,
                IF Len(k) > 0
                THEN LET returnNode == k[Len(k)]
                     IN DfsStep(st.visited, {returnNode}, k, {returnNode}, {backtrackNode},
                          "Backtrack: No unvisited neighbors for " \o backtrackNode
                            \o ". Return to node " \o returnNode \o ".")
                ELSE DfsStep(st.visited, Null, k, Null, Null,
                          "Backtrack: No unvisited neighbors for " \o backtrackNode
                            \o ". Stack now empty."))]

\* Mutant of EdgeCost: an edge without weight costs 1.
EdgeCost_MissingWeightIsOne(g, fromId, toId, otherwise) ==
  LET edge == getEdge(g, fromId, toId)
  IN IF edge = {} THEN otherwise
     ELSE IF (CHOOSE e \in edge : TRUE).weight # Undefined
          THEN CHOOSE w \in (CHOOSE e \in edge : TRUE).weight : TRUE
          ELSE 1

\* edge && edge.weight !== undefined ? edge.weight : <otherwise>
EdgeCost(g, fromId, toId, otherwise) ==
  LET edge == getEdge(g, fromId, toId)
  IN IF edge # {} /\ (CHOOSE e \in edge : TRUE).weight # Undefined
     THEN CHOOSE w \in (CHOOSE e \in edge : TRUE).weight : TRUE
     ELSE otherwise

NodeIdsOf(g) == {getGraphData(g).nodes[i].id : i \in 1..Len(getGraphData(g).nodes)}

\* Mutant of DijkstraInitDist: dist.set(sourceId, 0) is left out, so a self-loop
\* of the source gives the source its weight.
DijkstraInitDist_SourceNotReset(g, sourceId) ==
  [id \in NodeIdsOf(g) |-> EdgeCost(g, sourceId, id, IF id = sourceId THEN 0 ELSE Infinity)]

\* Initialize dist and parent; then set the source values.
DijkstraInitDist(g, sourceId) ==
  [id \in NodeIdsOf(g) |->
     IF id = sourceId THEN 0
     ELSE EdgeCost(g, sourceId, id, IF id = sourceId THEN 0 ELSE Infinity)]

DijkstraInitParent(g, sourceId) ==
  [id \in NodeIdsOf(g) |->
     IF id = sourceId THEN Null
     ELSE IF EdgeCost(g, sourceId, id, IF id = sourceId THEN 0 ELSE Infinity) < Infinity
          THEN {sourceId} ELSE Null]

\* Find unselected vertex with minimum distance: st = [minDist, minVertex],
\* scanning graphData.nodes from index i.
RECURSIVE DijkstraMin(_, _, _, _, _)
DijkstraMin(nodes, i, sel, d, st) ==
  IF i > Len(nodes) THEN st
  ELSE LET id == nodes[i].id
           distance == OrInfinity(d[id])
       IN IF id \notin Range(sel) /\ distance < st.minDist
          THEN DijkstraMin(nodes, i + 1, sel, d, [minDist |-> distance, minVertex |-> {id}])
          ELSE DijkstraMin(nodes, i + 1, sel, d, st)

\* Mutant of DijkstraRelax: the selected vertices are relaxed as well.
RECURSIVE DijkstraRelax_AlsoSelected(_, _, _, _, _, _)
DijkstraRelax_AlsoSelected(g, nodes, i, sel, minVertex, st) ==
  IF i > Len(nodes) THEN st
  ELSE LET id == nodes[i].id
           edgeCost == EdgeCost(g, minVertex, id, Infinity)
           newDist == OrZero(st.dist[minVertex]) + edgeCost
           oldDist == OrInfinity(st.dist[id])
       IN IF edgeCost < Infinity /\ newDist < oldDist
          THEN LET d == [st.dist EXCEPT ![id] = newDist]
                   p == [st.parent EXCEPT ![id] = {minVertex}]
               IN DijkstraRelax_AlsoSelected(g, nodes, i + 1, sel, minVertex,
                    [dist |-> d, parent |-> p,
                     steps |-> Append(st.steps,
                       DijkstraStep(sel, {minVertex}, d, p,
                         "Update: Distance to " \o id \o " via " \o minVertex \o " from "
                           \o NumStr(oldDist) \o " to " \o NumStr(newDist) \o "."))])
          ELSE DijkstraRelax_AlsoSelected(g, nodes, i + 1, sel, minVertex, st)

\* Update distances through minVertex: st = [dist, parent, steps].
RECURSIVE DijkstraRelax(_, _, _, _, _, _)
DijkstraRelax(g, nodes, i, sel, minVertex, st) ==
  IF i > Len(nodes) THEN st
  ELSE LET id == nodes[i].id
           edgeCost == EdgeCost(g, minVertex, id, Infinity)
           newDist == OrZero(st.dist[minVertex]) + edgeCost
           oldDist == OrInfinity(st.dist[id])
       IN IF id \notin Range(sel) /\ edgeCost < Infinity /\ newDist < oldDist
          THEN LET d == [st.dist EXCEPT ![id] = newDist]
                   p == [st.parent EXCEPT ![id] = {minVertex}]
               IN DijkstraRelax(g, nodes, i + 1, sel, minVertex,
                    [dist |-> d, parent |-> p,
                     steps |-> Append(st.steps,
                       DijkstraStep(sel, {minVertex}, d, p,
                         "Update: Distance to " \o id \o " via " \o minVertex \o " from "
                           \o NumStr(oldDist) \o " to " \o NumStr(newDist) \o "."))])
          ELSE DijkstraRelax(g, nodes, i + 1, sel, minVertex, st)

\* The body of for (let step = 0; step < n - 1; step++) of dijkstraAlgorithm:
\* st = [S, dist, parent, step, steps, pc]; the break sets pc to "dijkstraEnd".
DijkstraIteration(g, st) ==
  LET nodes == getGraphData(g).nodes
      min == DijkstraMin(nodes, 1, st.S, st.dist, [minDist |-> Infinity, minVertex |-> Null])
  IN IF min.minVertex = Null \/ min.minDist = Infinity
     THEN [st EXCEPT !.steps = Append(@, DijkstraStep(st.S, Null, st.dist, st.parent,
                                          "No more reachable vertices found.")),
                     !.pc = "dijkstraEnd"]
     ELSE LET minVertex == CHOOSE x \in min.minVertex : TRUE
              sel == SetAdd(st.S, minVertex)
              r == DijkstraRelax(g, nodes, 1, sel, minVertex,
                     [dist |-> st.dist, parent |-> st.parent,
                      steps |-> Append(st.steps, DijkstraStep(sel, {minVertex}, st.dist, st.parent,
                        "Select: Add vertex " \o minVertex \o " with distance "
                          \o NumStr(min.minDist) \o " to S."))])
          IN [S |-> sel, dist |-> r.dist, parent |-> r.parent, step |-> st.step + 1,
              steps |-> r.steps, pc |-> st.pc]

\* The three functions as the page calls them: the whole call, from its entry
\* to the returned step sequence.
RECURSIVE BfsRun(_, _)
BfsRun(g, st) ==
  IF Len(st.queue) > 0 THEN BfsRun(g, BfsIteration(g, st))
  ELSE Append(st.steps, BfsStep(st.visited, Null, <<>>, Null, Null, "Complete: BFS traversal finished."))

breadthFirstTraversal(g, id) ==
  IF ~StartFound(g, id) THEN <<TraversalNotFound("queue", id)>>
  ELSE BfsRun(g, [visited |-> <<id>>, queue |-> <<id>>,
                  steps |-> <<BfsStep(<<id>>, {id}, <<id>>, Null, Null,
                    "Initialize: Mark start node " \o id \o " as visited and add to queue.")>>])

RECURSIVE DfsRun(_, _)
DfsRun(g, st) ==
  IF Len(st.stack) > 0 THEN DfsRun(g, DfsIteration(g, st))
  ELSE Append(st.steps, DfsStep(st.visited, Null, <<>>, Null, Null, "Complete: DFS traversal finished."))

depthFirstTraversal(g, id) ==
  IF ~StartFound(g, id) THEN <<TraversalNotFound("stack", id)>>
  ELSE DfsRun(g, [visited |-> <<id>>, stack |-> <<id>>,
                  steps |-> <<DfsStep(<<id>>, {id}, <<id>>, Null, Null,
                    "Initialize: Mark start node " \o id \o " as visited and push to stack.")>>])

RECURSIVE DijkstraRun(_, _)
DijkstraRun(g, st) ==
  IF st.pc = "dijkstra" /\ st.step < Len(getGraphData(g).nodes) - 1
  THEN DijkstraRun(g, DijkstraIteration(g, st))
  ELSE Append(st.steps, DijkstraStep(st.S, Null, st.dist, st.parent,
                          "Complete: Dijkstra's algorithm finished."))

dijkstraAlgorithm(g, id) ==
  IF ~StartFound(g, id)
  THEN <<DijkstraStep(<<>>, Null, <<>>, <<>>, "Source node " \o id \o " not found in graph.")>>
  ELSE DijkstraRun(g, [S |-> <<id>>, dist |-> DijkstraInitDist(g, id),
                       parent |-> DijkstraInitParent(g, id), step |-> 0, pc |-> "dijkstra",
                       steps |-> <<DijkstraStep(<<id>>, {id}, DijkstraInitDist(g, id),
                                     DijkstraInitParent(g, id),
                                     "Initialize: Set source " \o id \o " distance to 0, add to S.")>>])

-----------------------------------------------------------------------------
\* HashTableVisualization (unnamed/part_002).  A table index is the JavaScript
\* index + 1.  The timestamp of an operations entry and the hashCalculation
\* state are written and displayed only; they are left out.

\* The keys the user types; " " is blank after trim().
Keys == {"a", "ab"}
KeyInputs == Keys \cup {"", " "}
BucketSizes == {5, 7}
HashFunctionNames == {"sum", "firstChar", "length", "polynomial"}
CollisionStrategies == {"none", "chaining", "open-addressing"}

\* String.prototype.charCodeAt for the characters of KeyInputs, at the 1-based index i.
CharCodeAt(key, i) ==
  CASE SubSeq(key, i, i) = "a" -> 97
    [] SubSeq(key, i, i) = "b" -> 98
    [] SubSeq(key, i, i) = " " -> 32

\* String.prototype.trim for keys of letters and spaces.
RECURSIVE Trim(_)
Trim(key) ==
  IF Len(key) = 0 THEN key
  ELSE IF SubSeq(key, 1, 1) = " " THEN Trim(SubSeq(key, 2, Len(key)))
  ELSE IF SubSeq(key, Len(key), Len(key)) = " " THEN Trim(SubSeq(key, 1, Len(key) - 1))
  ELSE key

\* for (let i = 0; i < key.length; i++) sum += key.charCodeAt(i), from index i on
RECURSIVE SumOfCodes(_, _)
SumOfCodes(key, i) ==
  IF i > Len(key) THEN 0 ELSE CharCodeAt(key, i) + SumOfCodes(key, i + 1)

\* Math.pow(p, i)
RECURSIVE Pow(_, _)
Pow(p, i) == IF i = 0 THEN 1 ELSE p * Pow(p, i - 1)

\* hash += key.charCodeAt(i) * Math.pow(p, i), from the 1-based index i on
RECURSIVE PolynomialSum(_, _)
PolynomialSum(key, i) ==
  IF i > Len(key) THEN 0
  ELSE CharCodeAt(key, i) * Pow(31, i - 1) + PolynomialSum(key, i + 1)

\* hashFunctions[name](key) with the bucket size of the current render
hashFunctions(name, size, key) ==
  CASE name = "sum" -> SumOfCodes(key, 1) % size
    [] name = "firstChar" -> IF Len(key) > 0 THEN CharCodeAt(key, 1) % size ELSE 0
    [] name = "length" -> Len(key) % size
    [] name = "polynomial" -> PolynomialSum(key, 1) % size

\* The table the initialisation effect builds.
NewTable(size, strategy) ==
  [i \in 1..size |->
     IF strategy = "chaining" THEN <<>>
     ELSE IF strategy = "open-addressing" THEN [key |-> Null, status |-> "empty"]
     ELSE [key |-> Null]]

\* insertKey, open addressing: while (i < bucketSize) { ... } from position, i.
RECURSIVE InsertProbe(_, _, _, _, _, _)
InsertProbe(table, size, key, hash, position, i) ==
  IF ~(i < size) THEN [table |-> table, done |-> FALSE, finalPosition |-> hash]
  ELSE IF table[position + 1].key = {key}
  THEN [table |-> table, done |-> FALSE, finalPosition |-> hash]
  ELSE IF table[position + 1].status = "empty" \/ table[position + 1].status = "deleted"
  THEN [table |-> [table EXCEPT ![position + 1] = [key |-> {key}, status |-> "filled"]],
        done |-> TRUE, finalPosition |-> position]
  ELSE InsertProbe(table, size, key, hash, (position + 1) % size, i + 1)

\* findKey, open addressing: the probe loop from position, i.
RECURSIVE FindProbe(_, _, _, _, _, _)
FindProbe(table, size, key, hash, position, i) ==
  IF ~(i < size) THEN [table |-> table, done |-> FALSE, finalPosition |-> hash]
  ELSE IF table[position + 1].status = "empty"
  THEN [table |-> table, done |-> FALSE, finalPosition |-> hash]
  ELSE IF table[position + 1].status = "filled" /\ table[position + 1].key = {key}
  THEN [table |-> table, done |-> TRUE, finalPosition |-> position]
  ELSE FindProbe(table, size, key, hash, (position + 1) % size, i + 1)

\* deleteKey, open addressing: the probe loop from position, i.
RECURSIVE DeleteProbe(_, _, _, _, _, _)
DeleteProbe(table, size, key, hash, position, i) ==
  IF ~(i < size) THEN [table |-> table, done |-> FALSE, finalPosition |-> hash]
  ELSE IF table[position + 1].status = "empty"
  THEN [table |-> table, done |-> FALSE, finalPosition |-> hash]
  ELSE IF table[position + 1].status = "filled" /\ table[position + 1].key = {key}
  THEN [table |-> [table EXCEPT ![position + 1] = [key |-> Null, status |-> "deleted"]],
        done |-> TRUE, finalPosition |-> position]
  ELSE DeleteProbe(table, size, key, hash, (position + 1) % size, i + 1)

\* The body of insertKey for a key that is not blank: the new table, whether
\* the key was inserted, and the final position.
InsertInto(table, size, strategy, hash, key) ==
  IF strategy = "chaining"
  THEN IF key \notin Range(table[hash + 1])
       THEN [table |-> [table EXCEPT ![hash + 1] = Append(@, key)],
             done |-> TRUE, finalPosition |-> hash]
       ELSE [table |-> table, done |-> FALSE, finalPosition |-> hash]
  ELSE IF strategy = "open-addressing"
  THEN InsertProbe(table, size, key, hash, hash, 0)
  ELSE IF table[hash + 1].key = Null
       THEN [table |-> [table EXCEPT ![hash + 1] = [key |-> {key}]],
             done |-> TRUE, finalPosition |-> hash]
       ELSE [table |-> table, done |-> FALSE, finalPosition |-> hash]

\* The body of findKey: done is found.
FindIn(table, size, strategy, hash, key) ==
  IF strategy = "chaining"
  THEN [table |-> table, done |-> key \in Range(table[hash + 1]), finalPosition |-> hash]
  ELSE IF strategy = "open-addressing"
  THEN FindProbe(table, size, key, hash, hash, 0)
  ELSE [table |-> table, done |-> table[hash + 1].key = {key}, finalPosition |-> hash]

\* The body of deleteKey: done is deleted.
DeleteFrom(table, size, strategy, hash, key) ==
  IF strategy = "chaining"
  THEN IF IndexOf(table[hash + 1], key) # 0
       THEN [table |-> [table EXCEPT ![hash + 1] = SelectSeq(@, LAMBDA item : item # key)],
             done |-> TRUE, finalPosition |-> hash]
       ELSE [table |-> table, done |-> FALSE, finalPosition |-> hash]
  ELSE IF strategy = "open-addressing"
  THEN DeleteProbe(table, size, key, hash, hash, 0)
  ELSE IF table[hash + 1].key = {key}
       THEN [table |-> [table EXCEPT ![hash + 1] = [key |-> Null]],
             done |-> TRUE, finalPosition |-> hash]
       ELSE [table |-> table, done |-> FALSE, finalPosition |-> hash]

\* The component after its first render and its initialisation effect.
TableInitial ==
  /\ bucketSize = 7
  /\ inputKey = ""
  /\ hashTable = NewTable(7, "chaining")
  /\ operations = <<>>
  /\ hashFunction = "sum"
  /\ collisionStrategy = "chaining"

-----------------------------------------------------------------------------
\* GraphPage: the useState values of its first render.
PageInitial ==
  /\ algorithm = "bfs"
  /\ startNode = ""
  /\ isRunning = FALSE
  /\ stepIndex = 0
  /\ pageSteps = <<>>
  /\ timerRef = Null

-----------------------------------------------------------------------------
\* The state machine: a caller constructs a Graph, calls its operations and,
\* between them, one traversal at a time.  A traversal call is synchronous:
\* no other call runs until it has returned.

NoRet == [op |-> "", threw |-> FALSE, value |-> ""]

NoLocals ==
  /\ startNodeId = ""
  /\ visited = <<>>
  /\ queue = <<>>
  /\ stack = <<>>
  /\ S = <<>>
  /\ dist = <<>>
  /\ parent = <<>>
  /\ step = 0
  /\ steps = <<>>

Init ==
  /\ \E d \in BOOLEAN, w \in BOOLEAN : graph = NewGraph(d, w)
  /\ ret = NoRet
  /\ pc = "idle"
  /\ NoLocals
  /\ PageInitial
  /\ TableInitial

\* The caller makes its next call once it has taken the previous call's result.
CanCall == pc = "idle" /\ ret = NoRet

\* A call on the store, up to its return or throw.
StoreCall(op, r) ==
  /\ graph' = r.graph
  /\ ret' = [op |-> op, threw |-> r.threw, value |-> r.value]
  /\ UNCHANGED <<pc, locals, pageVars, tableVars>>

\* The caller takes what the last call returned (or catches what it threw).
Resume ==
  /\ pc \in {"idle", "returned"}
  /\ ret # NoRet
  /\ ret' = NoRet
  /\ pc' = "idle"
  /\ startNodeId' = ""
  /\ visited' = <<>>
  /\ queue' = <<>>
  /\ stack' = <<>>
  /\ S' = <<>>
  /\ dist' = <<>>
  /\ parent' = <<>>
  /\ step' = 0
  /\ steps' = <<>>
  /\ UNCHANGED <<graph, pageVars, tableVars>>

CallAddNode(id) ==
  /\ CanCall
  /\ StoreCall("addNode", addNode(graph, id, id))

CallRemoveNode(id) ==
  /\ CanCall
  /\ StoreCall("removeNode", removeNode(graph, id))

CallAddEdge(s, t, w) ==
  /\ CanCall
  /\ Len(graph.edges) < MaxEdges \/ addEdge(graph, s, t, w).threw
  /\ StoreCall("addEdge", addEdge(graph, s, t, w))

\* addEdge called by a caller that stores up to MaxBuiltEdges edges.
CallAddEdgeBuilding(s, t, w) ==
  /\ CanCall
  /\ Len(graph.edges) < MaxBuiltEdges \/ addEdge(graph, s, t, w).threw
  /\ StoreCall("addEdge", addEdge(graph, s, t, w))

CallRemoveEdge(s, t) ==
  /\ CanCall
  /\ StoreCall("removeEdge", removeEdge(graph, s, t))

\* The call and the code before the loop.
CallBreadthFirstTraversal(id) ==
  /\ CanCall
  /\ ret' = [op |-> "breadthFirstTraversal", threw |-> FALSE, value |-> ""]
  /\ startNodeId' = id
  /\ UNCHANGED <<graph, stack, S, dist, parent, step, pageVars, tableVars>>
  /\ IF ~StartFound(graph, id)
     THEN /\ steps' = <<TraversalNotFound("queue", id)>>
          /\ visited' = <<>>
          /\ queue' = <<>>
          /\ pc' = "returned"
     ELSE /\ visited' = <<id>>
          /\ queue' = <<id>>
          /\ steps' = <<BfsStep(<<id>>, {id}, <<id>>, Null, Null,
                          "Initialize: Mark start node " \o id \o " as visited and add to queue.")>>
          /\ pc' = "bfs"

\* Mutant of BfsLoop: the loop consumes the graph's own adjacency set of the
\* node it processes.
BfsLoop_ConsumesAdjacency ==
  /\ pc = "bfs"
  /\ Len(queue) > 0
  /\ LET st == BfsIteration(graph, [visited |-> visited, queue |-> queue, steps |-> steps])
     IN /\ visited' = st.visited
        /\ queue' = st.queue
        /\ steps' = st.steps
  /\ graph' = [graph EXCEPT !.adjacencyList =
                 [i \in 1..Len(graph.adjacencyList) |->
                    IF graph.adjacencyList[i].nodeId = Head(queue)
                    THEN [graph.adjacencyList[i] EXCEPT !.adjacentNodes = <<>>]
                    ELSE graph.adjacencyList[i]]]
  /\ UNCHANGED <<ret, pc, startNodeId, stack, S, dist, parent, step, pageVars, tableVars>>

BfsLoop ==
  /\ pc = "bfs"
  /\ Len(queue) > 0
  /\ LET st == BfsIteration(graph, [visited |-> visited, queue |-> queue, steps |-> steps])
     IN /\ visited' = st.visited
        /\ queue' = st.queue
        /\ steps' = st.steps
  /\ UNCHANGED <<graph, ret, pc, startNodeId, stack, S, dist, parent, step, pageVars, tableVars>>

BfsReturn ==
  /\ pc = "bfs"
  /\ ~(Len(queue) > 0)
  /\ steps' = Append(steps, BfsStep(visited, Null, <<>>, Null, Null, "Complete: BFS traversal finished."))
  /\ pc' = "returned"
  /\ visited' = <<>>
  /\ queue' = <<>>
  /\ UNCHANGED <<graph, ret, startNodeId, stack, S, dist, parent, step, pageVars, tableVars>>

CallDepthFirstTraversal(id) ==
  /\ CanCall
  /\ ret' = [op |-> "depthFirstTraversal", threw |-> FALSE, value |-> ""]
  /\ startNodeId' = id
  /\ UNCHANGED <<graph, queue, S, dist, parent, step, pageVars, tableVars>>
  /\ IF ~StartFound(graph, id)
     THEN /\ steps' = <<TraversalNotFound("stack", id)>>
          /\ visited' = <<>>
          /\ stack' = <<>>
          /\ pc' = "returned"
     ELSE /\ visited' = <<id>>
          /\ stack' = <<id>>
          /\ steps' = <<DfsStep(<<id>>, {id}, <<id>>, Null, Null,
                          "Initialize: Mark start node " \o id \o " as visited and push to stack.")>>
          /\ pc' = "dfs"

\* Mutant of DfsLoop: the snapshots hold the live visited set instead of a copy.
DfsLoop_SharedVisited ==
  /\ pc = "dfs"
  /\ Len(stack) > 0
  /\ LET st == DfsIteration(graph, [visited |-> visited, stack |-> stack, steps |-> steps])
     IN /\ visited' = st.visited
        /\ stack' = st.stack
        /\ steps' = [k \in 1..Len(st.steps) |-> [st.steps[k] EXCEPT !.visited = st.visited]]
  /\ UNCHANGED <<graph, ret, pc, startNodeId, queue, S, dist, parent, step, pageVars, tableVars>>

DfsLoop ==
  /\ pc = "dfs"
  /\ Len(stack) > 0
  /\ LET st == DfsIteration(graph, [visited |-> visited, stack |-> stack, steps |-> steps])
     IN /\ visited' = st.visited
        /\ stack' = st.stack
        /\ steps' = st.steps
  /\ UNCHANGED <<graph, ret, pc, startNodeId, queue, S, dist, parent, step, pageVars, tableVars>>

DfsReturn ==
  /\ pc = "dfs"
  /\ ~(Len(stack) > 0)
  /\ steps' = Append(steps, DfsStep(visited, Null, <<>>, Null, Null, "Complete: DFS traversal finished."))
  /\ pc' = "returned"
  /\ visited' = <<>>
  /\ stack' = <<>>
  /\ UNCHANGED <<graph, ret, startNodeId, queue, S, dist, parent, step, pageVars, tableVars>>

CallDijkstraAlgorithm(id) ==
  /\ CanCall
  /\ ret' = [op |-> "dijkstraAlgorithm", threw |-> FALSE, value |-> ""]
  /\ startNodeId' = id
  /\ UNCHANGED <<graph, visited, queue, stack, pageVars, tableVars>>
  /\ step' = 0
  /\ IF ~StartFound(graph, id)
     THEN /\ steps' = <<DijkstraStep(<<>>, Null, <<>>, <<>>,
                          "Source node " \o id \o " not found in graph.")>>
          /\ S' = <<>>
          /\ dist' = <<>>
          /\ parent' = <<>>
          /\ pc' = "returned"
     ELSE /\ S' = <<id>>
          /\ dist' = DijkstraInitDist(graph, id)
          /\ parent' = DijkstraInitParent(graph, id)
          /\ steps' = <<DijkstraStep(<<id>>, {id}, DijkstraInitDist(graph, id), DijkstraInitParent(graph, id),
                          "Initialize: Set source " \o id \o " distance to 0, add to S.")>>
          /\ pc' = "dijkstra"

\* One iteration of for (let step = 0; step < n - 1; step++); the break
\* leaves the loop for the code after it.
DijkstraLoop ==
  /\ pc = "dijkstra"
  /\ step < Len(getGraphData(graph).nodes) - 1
  /\ LET st == DijkstraIteration(graph, [S |-> S, dist |-> dist, parent |-> parent,
                                         step |-> step, steps |-> steps, pc |-> pc])
     IN /\ S' = st.S
        /\ dist' = st.dist
        /\ parent' = st.parent
        /\ step' = st.step
        /\ steps' = st.steps
        /\ pc' = st.pc
  /\ UNCHANGED <<graph, ret, startNodeId, visited, queue, stack, pageVars, tableVars>>

DijkstraReturn ==
  /\ \/ pc = "dijkstraEnd"
     \/ pc = "dijkstra" /\ ~(step < Len(getGraphData(graph).nodes) - 1)
  /\ steps' = Append(steps, DijkstraStep(S, Null, dist, parent,
                              "Complete: Dijkstra's algorithm finished."))
  /\ pc' = "returned"
  /\ S' = <<>>
  /\ dist' = <<>>
  /\ parent' = <<>>
  /\ step' = 0
  /\ UNCHANGED <<graph, ret, startNodeId, visited, queue, stack, pageVars, tableVars>>

\* The store alone.
StoreNext ==
  \/ \E id \in NodeIds : CallAddNode(id)
  \/ \E id \in NodeIds : CallRemoveNode(id)
  \/ \E s \in NodeIds, t \in NodeIds, w \in WeightArgs : CallAddEdge(s, t, w)
  \/ \E s \in NodeIds, t \in NodeIds : CallRemoveEdge(s, t)
  \/ Resume

StoreSpec == Init /\ [][StoreNext]_vars

\* The rendering layer (GraphContext.initializeSimulation, called by the
\* useD3Visualization hook when there are nodes): d3.forceLink(graphData.edges)
\* replaces, in every edge record it is given, a source / target that is a node
\* id by a reference to the node record with that id.  graphData is the result
\* of graph.getGraphData(), whose lists hold the graph's own records.
IsNodeRef(x) == Len(x) > 0 /\ SubSeq(x, 1, 1) = "@"
NodeRef(x) == IF IsNodeRef(x) THEN x ELSE "@" \o x

InitializeSimulation ==
  /\ CanCall
  /\ Len(getGraphData(graph).nodes) > 0
  /\ graph' = [graph EXCEPT !.edges =
                 [i \in 1..Len(getGraphData(graph).edges) |->
                    [getGraphData(graph).edges[i] EXCEPT !.source = NodeRef(@), !.target = NodeRef(@)]]]
  /\ UNCHANGED <<ret, pc, locals, pageVars, tableVars>>

\* The store and the rendering layer.
RenderNext ==
  \/ \E id \in NodeIds : CallAddNode(id)
  \/ \E id \in NodeIds : CallRemoveNode(id)
  \/ \E s \in NodeIds, t \in NodeIds, w \in GivenWeights : CallAddEdge(s, t, w)
  \/ \E s \in NodeIds, t \in NodeIds : CallRemoveEdge(s, t)
  \/ Resume
  \/ InitializeSimulation

RenderSpec == Init /\ [][RenderNext]_vars

\* The store and the traversals; here the caller gives every edge a weight
\* (which an unweighted graph ignores).
Next ==
  \/ \E id \in NodeIds : CallAddNode(id)
  \/ \E id \in NodeIds : CallRemoveNode(id)
  \/ \E s \in NodeIds, t \in NodeIds, w \in GivenWeights : CallAddEdge(s, t, w)
  \/ \E s \in NodeIds, t \in NodeIds : CallRemoveEdge(s, t)
  \/ Resume
  \/ \E id \in NodeIds : CallBreadthFirstTraversal(id)
  \/ BfsLoop
  \/ BfsReturn
  \/ \E id \in NodeIds : CallDepthFirstTraversal(id)
  \/ DfsLoop
  \/ DfsReturn
  \/ \E id \in NodeIds : CallDijkstraAlgorithm(id)
  \/ DijkstraLoop
  \/ DijkstraReturn

Spec == Init /\ [][Next]_vars

\* The steps inside a traversal call.
InTraversal ==
  \/ BfsLoop
  \/ BfsReturn
  \/ DfsLoop
  \/ DfsReturn
  \/ DijkstraLoop
  \/ DijkstraReturn

\* The store and dijkstraAlgorithm; here the caller may leave the weight of an
\* edge out, so that a weighted graph can hold edges without weight.
DijkstraNext ==
  \/ \E id \in NodeIds : CallAddNode(id)
  \/ \E id \in NodeIds : CallRemoveNode(id)
  \/ \E s \in NodeIds, t \in NodeIds, w \in WeightArgs : CallAddEdge(s, t, w)
  \/ \E s \in NodeIds, t \in NodeIds : CallRemoveEdge(s, t)
  \/ Resume
  \/ \E id \in NodeIds : CallDijkstraAlgorithm(id)
  \/ DijkstraLoop
  \/ DijkstraReturn

DijkstraSpec == Init /\ [][DijkstraNext]_vars

\* A caller that builds a graph, one node and one edge at a time, and runs
\* dijkstraAlgorithm on what it has built so far.
BuiltNext ==
  \/ \E id \in NodeIds : CallAddNode(id)
  \/ \E s \in NodeIds, t \in NodeIds, w \in GivenWeights : CallAddEdgeBuilding(s, t, w)
  \/ Resume
  \/ \E id \in NodeIds : CallDijkstraAlgorithm(id)
  \/ DijkstraLoop
  \/ DijkstraReturn

BuiltSpec == Init /\ [][BuiltNext]_vars

-----------------------------------------------------------------------------
\* The application (GraphContext, GraphPage): its graph is the sample graph of
\* utils/GraphUtils.ts; the user toggles directed / weighted, which builds the
\* sample graph again, picks a start node among the graph's nodes and runs one
\* of the three algorithms.

SampleNodes == <<"1", "2", "3", "4", "5">>
SampleEdges ==
  << <<"1", "2", 10>>, <<"1", "3", 5>>, <<"2", "3", 2>>,
     <<"2", "4", 1>>, <<"3", "5", 7>>, <<"4", "5", 4>> >>

\* graph.addNode(id, id) for the ids from index i on; a throw ends the try block.
RECURSIVE SampleAddNodes(_, _)
SampleAddNodes(g, i) ==
  IF i > Len(SampleNodes) THEN [graph |-> g, threw |-> FALSE]
  ELSE LET r == addNode(g, SampleNodes[i], SampleNodes[i])
       IN IF r.threw THEN [graph |-> r.graph, threw |-> TRUE]
          ELSE SampleAddNodes(r.graph, i + 1)

\* graph.addEdge(s, t, w) / graph.addEdge(s, t) for the edges from index i on.
RECURSIVE SampleAddEdges(_, _, _)
SampleAddEdges(g, weighted, i) ==
  IF i > Len(SampleEdges) THEN g
  ELSE LET e == SampleEdges[i]
           r == addEdge(g, e[1], e[2], IF weighted THEN {e[3]} ELSE Undefined)
       IN IF r.threw THEN r.graph
          ELSE SampleAddEdges(r.graph, weighted, i + 1)

createSampleGraph(directed, weighted) ==
  LET n == SampleAddNodes(NewGraph(directed, weighted), 1)
  IN IF n.threw THEN n.graph ELSE SampleAddEdges(n.graph, weighted, 1)

SampleInit ==
  /\ graph = createSampleGraph(FALSE, FALSE)
  /\ ret = NoRet
  /\ pc = "idle"
  /\ NoLocals
  /\ PageInitial
  /\ TableInitial

\* resetVisualization(), as the handlers below call it.
ResetVisualization ==
  /\ timerRef' = Null
  /\ isRunning' = FALSE
  /\ stepIndex' = 0
  /\ pageSteps' = <<>>

toggleDirected ==
  /\ CanCall
  /\ graph' = createSampleGraph(~graph.directed, graph.weighted)
  /\ ResetVisualization
  /\ UNCHANGED <<algorithm, startNode>>
  /\ UNCHANGED <<ret, pc, locals, tableVars>>

toggleWeighted ==
  /\ CanCall
  /\ graph' = createSampleGraph(graph.directed, ~graph.weighted)
  /\ ResetVisualization
  /\ UNCHANGED <<algorithm, startNode>>
  /\ UNCHANGED <<ret, pc, locals, tableVars>>

\* The start node is one of the options of the select: a node of the graph.
SampleNext ==
  \/ toggleDirected
  \/ toggleWeighted
  \/ Resume
  \/ \E id \in NodeIdsOf(graph) : CallBreadthFirstTraversal(id)
  \/ BfsLoop
  \/ BfsReturn
  \/ \E id \in NodeIdsOf(graph) : CallDepthFirstTraversal(id)
  \/ DfsLoop
  \/ DfsReturn
  \/ \E id \in NodeIdsOf(graph) : CallDijkstraAlgorithm(id)
  \/ DijkstraLoop
  \/ DijkstraReturn

SampleSpec == SampleInit /\ [][SampleNext]_vars

\* GraphPage with its controls.  An effect sets the default start node after
\* a render with nodes and an empty start node; React runs it before it
\* handles the next event.  A button that is disabled takes no click.  The
\* animation speed only sets the period of the timer and is left out.
Algorithms == {"bfs", "dfs", "dijkstra"}

DefaultStartNodePending == Len(getGraphData(graph).nodes) > 0 /\ startNode = ""

defaultStartNode ==
  /\ DefaultStartNodePending
  /\ startNode' = getGraphData(graph).nodes[1].id
  /\ UNCHANGED <<algorithm, isRunning, stepIndex, pageSteps, timerRef>>
  /\ UNCHANGED <<graph, ret, pc, locals, tableVars>>

\* switch (algorithm) { ... } of runAlgorithm
AlgorithmSteps(name, g, id) ==
  CASE name = "bfs" -> breadthFirstTraversal(g, id)
    [] name = "dfs" -> depthFirstTraversal(g, id)
    [] name = "dijkstra" -> dijkstraAlgorithm(g, id)

\* The Init button.
runAlgorithm ==
  /\ ~DefaultStartNodePending
  /\ timerRef' = Null
  /\ isRunning' = FALSE
  /\ stepIndex' = 0
  /\ pageSteps' = IF startNode = "" THEN pageSteps ELSE AlgorithmSteps(algorithm, graph, startNode)
  /\ UNCHANGED <<algorithm, startNode>>
  /\ UNCHANGED <<graph, ret, pc, locals, tableVars>>

\* The play / pause button, disabled while there are no steps.
toggleAnimation ==
  /\ ~DefaultStartNodePending
  /\ ~(Len(pageSteps) = 0)
  /\ IF isRunning
     THEN /\ timerRef' = Null
          /\ isRunning' = FALSE
     ELSE /\ isRunning' = TRUE
          /\ timerRef' = {Len(pageSteps)}
  /\ UNCHANGED <<algorithm, startNode, stepIndex, pageSteps>>
  /\ UNCHANGED <<graph, ret, pc, locals, tableVars>>

\* The interval's callback; steps.length is the one of the render that
\* started the interval.
timerTick ==
  /\ timerRef # Null
  /\ LET length == CHOOSE n \in timerRef : TRUE
     IN IF stepIndex >= length - 1
        THEN /\ timerRef' = Null
             /\ isRunning' = FALSE
             /\ stepIndex' = stepIndex
        ELSE /\ stepIndex' = stepIndex + 1
             /\ UNCHANGED <<timerRef, isRunning>>
  /\ UNCHANGED <<algorithm, startNode, pageSteps>>
  /\ UNCHANGED <<graph, ret, pc, locals, tableVars>>

stepForward ==
  /\ ~DefaultStartNodePending
  /\ ~(stepIndex = Len(pageSteps) - 1 \/ Len(pageSteps) = 0)
  /\ stepIndex' = IF stepIndex < Len(pageSteps) - 1 THEN stepIndex + 1 ELSE stepIndex
  /\ UNCHANGED <<algorithm, startNode, isRunning, pageSteps, timerRef>>
  /\ UNCHANGED <<graph, ret, pc, locals, tableVars>>

stepBackward ==
  /\ ~DefaultStartNodePending
  /\ ~(stepIndex = 0 \/ Len(pageSteps) = 0)
  /\ stepIndex' = IF stepIndex > 0 THEN stepIndex - 1 ELSE stepIndex
  /\ UNCHANGED <<algorithm, startNode, isRunning, pageSteps, timerRef>>
  /\ UNCHANGED <<graph, ret, pc, locals, tableVars>>

\* The reset button, disabled while there are no steps.
resetVisualization ==
  /\ ~DefaultStartNodePending
  /\ ~(Len(pageSteps) = 0)
  /\ ResetVisualization
  /\ UNCHANGED <<algorithm, startNode>>
  /\ UNCHANGED <<graph, ret, pc, locals, tableVars>>

setAlgorithm(name) ==
  /\ ~DefaultStartNodePending
  /\ algorithm' = name
  /\ UNCHANGED <<startNode, isRunning, stepIndex, pageSteps, timerRef>>
  /\ UNCHANGED <<graph, ret, pc, locals, tableVars>>

\* The options of the start-node select are the nodes of the graph.
setStartNode(id) ==
  /\ ~DefaultStartNodePending
  /\ id \in NodeIdsOf(graph)
  /\ startNode' = id
  /\ UNCHANGED <<algorithm, isRunning, stepIndex, pageSteps, timerRef>>
  /\ UNCHANGED <<graph, ret, pc, locals, tableVars>>

PageNext ==
  \/ defaultStartNode
  \/ runAlgorithm
  \/ toggleAnimation
  \/ timerTick
  \/ stepForward
  \/ stepBackward
  \/ resetVisualization
  \/ \E name \in Algorithms : setAlgorithm(name)
  \/ \E id \in Range(SampleNodes) : setStartNode(id)
  \/ ~DefaultStartNodePending /\ toggleDirected
  \/ ~DefaultStartNodePending /\ toggleWeighted

PageSpec == SampleInit /\ [][PageNext]_vars

-----------------------------------------------------------------------------
\* HashTableVisualization: the event handlers.  The initialisation effect has
\* [bucketSize, collisionStrategy] as dependencies: it runs, before the next
\* event, after a render in which one of them has changed.

graphVars == <<graph, ret, pc, locals>>

setInputKey(value) ==
  /\ inputKey' = value
  /\ UNCHANGED <<bucketSize, hashTable, operations, hashFunction, collisionStrategy>>
  /\ UNCHANGED <<graphVars, pageVars>>

insertKey ==
  /\ IF Trim(inputKey) = ""
     THEN UNCHANGED <<hashTable, operations, inputKey>>
     ELSE LET hash == hashFunctions(hashFunction, bucketSize, inputKey)
              r == InsertInto(hashTable, bucketSize, collisionStrategy, hash, inputKey)
          IN /\ r.done => Len(operations) < MaxOperations
             /\ hashTable' = IF r.done THEN r.table ELSE hashTable
             /\ operations' =
                  IF r.done
                  THEN Append(operations, [type |-> "insert", key |-> inputKey, hash |-> hash,
                                           finalPosition |-> r.finalPosition])
                  ELSE operations
             /\ inputKey' = ""
  /\ UNCHANGED <<bucketSize, hashFunction, collisionStrategy>>
  /\ UNCHANGED <<graphVars, pageVars>>

findKey ==
  /\ IF Trim(inputKey) = ""
     THEN UNCHANGED <<operations, inputKey>>
     ELSE LET hash == hashFunctions(hashFunction, bucketSize, inputKey)
              r == FindIn(hashTable, bucketSize, collisionStrategy, hash, inputKey)
          IN /\ Len(operations) < MaxOperations
             /\ operations' =
                  Append(operations, [type |-> "find", key |-> inputKey, hash |-> hash,
                                      finalPosition |-> r.finalPosition, found |-> r.done])
             /\ inputKey' = ""
  /\ UNCHANGED <<bucketSize, hashTable, hashFunction, collisionStrategy>>
  /\ UNCHANGED <<graphVars, pageVars>>

deleteKey ==
  /\ IF Trim(inputKey) = ""
     THEN UNCHANGED <<hashTable, operations, inputKey>>
     ELSE LET hash == hashFunctions(hashFunction, bucketSize, inputKey)
              r == DeleteFrom(hashTable, bucketSize, collisionStrategy, hash, inputKey)
          IN /\ r.done => Len(operations) < MaxOperations
             /\ hashTable' = IF r.done THEN r.table ELSE hashTable
             /\ operations' =
                  IF r.done
                  THEN Append(operations, [type |-> "delete", key |-> inputKey, hash |-> hash,
                                           finalPosition |-> r.finalPosition])
                  ELSE operations
             /\ inputKey' = ""
  /\ UNCHANGED <<bucketSize, hashFunction, collisionStrategy>>
  /\ UNCHANGED <<graphVars, pageVars>>

clearOperations ==
  /\ operations' = <<>>
  /\ UNCHANGED <<bucketSize, inputKey, hashTable, hashFunction, collisionStrategy>>
  /\ UNCHANGED <<graphVars, pageVars>>

setBucketSize(size) ==
  /\ bucketSize' = size
  /\ IF size # bucketSize
     THEN /\ hashTable' = NewTable(size, collisionStrategy)
          /\ operations' = <<>>
     ELSE UNCHANGED <<hashTable, operations>>
  /\ UNCHANGED <<inputKey, hashFunction, collisionStrategy>>
  /\ UNCHANGED <<graphVars, pageVars>>

setHashFunction(name) ==
  /\ hashFunction' = name
  /\ UNCHANGED <<bucketSize, inputKey, hashTable, operations, collisionStrategy>>
  /\ UNCHANGED <<graphVars, pageVars>>

setCollisionStrategy(strategy) ==
  /\ collisionStrategy' = strategy
  /\ IF strategy # collisionStrategy
     THEN /\ hashTable' = NewTable(bucketSize, strategy)
          /\ operations' = <<>>
     ELSE UNCHANGED <<hashTable, operations>>
  /\ UNCHANGED <<bucketSize, inputKey, hashFunction>>
  /\ UNCHANGED <<graphVars, pageVars>>

\* The page is open; the graph of the application's context is the sample graph.
HashInit ==
  /\ graph = createSampleGraph(FALSE, FALSE)
  /\ ret = NoRet
  /\ pc = "idle"
  /\ NoLocals
  /\ PageInitial
  /\ TableInitial

HashNext ==
  \/ \E value \in KeyInputs : setInputKey(value)
  \/ insertKey
  \/ findKey
  \/ deleteKey
  \/ clearOperations
  \/ \E size \in BucketSizes : setBucketSize(size)
  \/ \E name \in HashFunctionNames : setHashFunction(name)
  \/ \E strategy \in CollisionStrategies : setCollisionStrategy(strategy)

HashSpec == HashInit /\ [][HashNext]_vars

\* No key is stored and no slot is marked deleted: the table as the
\* initialisation effect leaves it.
TableIsFresh == hashTable = NewTable(bucketSize, collisionStrategy)

\* The user chooses the hash function before the table is used and keeps it.
FixedHashNext ==
  \/ \E value \in KeyInputs : setInputKey(value)
  \/ insertKey
  \/ findKey
  \/ deleteKey
  \/ clearOperations
  \/ \E size \in BucketSizes : setBucketSize(size)
  \/ \E name \in HashFunctionNames : TableIsFresh /\ setHashFunction(name)
  \/ \E strategy \in CollisionStrategies : setCollisionStrategy(strategy)

FixedHashSpec == HashInit /\ [][FixedHashNext]_vars

-----------------------------------------------------------------------------
\* Vocabulary of the properties.

NodeIdSet(g) == {g.nodes[i].id : i \in 1..Len(g.nodes)}
AdjKeys(g) == {g.adjacencyList[i].nodeId : i \in 1..Len(g.adjacencyList)}
EdgeSet(g) == Range(g.edges)

\* adjacency(u): the members of u's adjacency set ({} when u is no key).
Adjacency(g, u) == UNION {Range(a) : a \in AdjGet(g, u)}

\* The elements of a, which has no duplicates, come in the same order in b.
SameOrder(a, b) ==
  \A i \in 1..Len(a), j \in 1..Len(a) : i < j => IndexOf(b, a[i]) < IndexOf(b, a[j])

\* a is b without the elements that satisfy Drop, in b's order.
IsRestOf(a, b, Drop(_)) ==
  /\ Range(a) = {x \in Range(b) : ~Drop(x)}
  /\ Len(a) = Cardinality(Range(a))
  /\ SameOrder(a, b)

-----------------------------------------------------------------------------
\* C1: after any sequence of addNode / removeNode / addEdge / removeEdge calls,
\* failed ones included, every key of the adjacency map and every member of an
\* adjacency set is the id of an existing node, and both endpoints of every
\* stored edge are existing nodes.
C1_ReferencesExist ==
  /\ AdjKeys(graph) \subseteq NodeIdSet(graph)
  /\ \A u \in AdjKeys(graph) : Adjacency(graph, u) \subseteq NodeIdSet(graph)
  /\ \A e \in EdgeSet(graph) : e.source \in NodeIdSet(graph) /\ e.target \in NodeIdSet(graph)

\* A removeNode has just removed a node of a graph that still holds an edge
\* and a non-empty adjacency set.
C1_Witness ==
  /\ ret.op = "removeNode" /\ ret.value = "true"
  /\ graph.edges # <<>>
  /\ \E u \in AdjKeys(graph) : Adjacency(graph, u) # {}

\* C2 (as claimed): the adjacency relation is consistent with the edge set: for
\* every stored edge (u,v), v is in adjacency(u) and, on an undirected graph,
\* u is in adjacency(v).
C2_AdjacencyCoversEdges ==
  \A e \in EdgeSet(graph) :
    /\ e.target \in Adjacency(graph, e.source)
    /\ ~graph.directed => e.source \in Adjacency(graph, e.target)

\* C3 (as claimed): for all node ids u, v, getEdge(u,v) returns an edge iff
\* v is in adjacency(u) and, on an undirected graph, u is in adjacency(v).
C3_GetEdgeIffAdjacent ==
  \A u \in NodeIds, v \in NodeIds :
    getEdge(graph, u, v) # {}
      <=> /\ v \in Adjacency(graph, u)
          /\ ~graph.directed => u \in Adjacency(graph, v)

\* C4: a mutation that fails leaves the store as it was; addNode of a present
\* id fails; addEdge fails when an endpoint is absent and when an edge with the
\* same ordered (source,target) pair is stored; so no two stored edges share
\* their ordered pair.
C4_FailedMutationsChangeNothing ==
  /\ CanCall => \A id \in NodeIds :
       LET r == addNode(graph, id, id)
       IN /\ HasNode(graph, id) => r.threw
          /\ r.threw => r.graph = graph /\ getGraphData(r.graph) = getGraphData(graph)
  /\ CanCall => \A s \in NodeIds, t \in NodeIds, w \in WeightArgs :
       LET r == addEdge(graph, s, t, w)
       IN /\ (s \notin NodeIdSet(graph) \/ t \notin NodeIdSet(graph)) => r.threw
          /\ (\E e \in EdgeSet(graph) : e.source = s /\ e.target = t) => r.threw
          /\ r.threw => r.graph = graph /\ getGraphData(r.graph) = getGraphData(graph)
  /\ \A i \in 1..Len(graph.edges), j \in 1..Len(graph.edges) :
       (graph.edges[i].source = graph.edges[j].source
          /\ graph.edges[i].target = graph.edges[j].target) => i = j

\* An addEdge has just been refused as a duplicate.
C4_Witness ==
  /\ ret.op = "addEdge" /\ ret.threw
  /\ ret.value # "Source or target node does not exist"
  /\ graph.edges # <<>>

\* C5: removeNode(id) of an absent id returns false and changes nothing; of a
\* present id it returns true, and afterwards the node is gone, no stored edge
\* has id as source or target, id is no key of the adjacency map and in no
\* adjacency set, and the nodes, edges and adjacency entries that do not
\* involve id are as before, in the same order.
C5_RemoveNodeEffect ==
  CanCall => \A id \in NodeIds :
    LET r == removeNode(graph, id)
        g == r.graph
    IN /\ ~r.threw
       /\ id \notin NodeIdSet(graph) => r.value = "false" /\ g = graph
       /\ id \in NodeIdSet(graph) =>
            /\ r.value = "true"
            /\ getNode(g, id) = {}
            /\ \A e \in EdgeSet(g) : e.source # id /\ e.target # id
            /\ id \notin AdjKeys(g)
            /\ \A u \in AdjKeys(g) : id \notin Adjacency(g, u)
            /\ IsRestOf(g.nodes, graph.nodes, LAMBDA n : n.id = id)
            /\ IsRestOf(g.edges, graph.edges, LAMBDA e : e.source = id \/ e.target = id)
            /\ AdjKeys(g) = AdjKeys(graph) \ {id}
            /\ SameOrder([i \in 1..Len(g.adjacencyList) |-> g.adjacencyList[i].nodeId],
                         [i \in 1..Len(graph.adjacencyList) |-> graph.adjacencyList[i].nodeId])
            /\ \A u \in AdjKeys(g) :
                 \A a \in AdjGet(g, u), b \in AdjGet(graph, u) : IsRestOf(a, b, LAMBDA x : x = id)
            /\ g.directed = graph.directed /\ g.weighted = graph.weighted

\* A state in which removing some node takes an edge and an adjacency member
\* away and leaves another edge in place.
C5_Witness ==
  /\ pc = "idle"
  /\ \E id \in NodeIdSet(graph) :
       LET g == removeNode(graph, id).graph
       IN /\ g.edges # <<>>
          /\ Len(g.edges) < Len(graph.edges)
          /\ \E u \in AdjKeys(g) : Adjacency(g, u) # Adjacency(graph, u)

\* C6 (as claimed): whenever addEdge(u,v) succeeds, removeEdge(u,v) right after
\* it returns true and gives back the store addEdge started from; removeEdge
\* of an absent edge returns false and changes nothing.
C6_RemoveEdgeUndoesAddEdge ==
  CanCall => \A s \in NodeIds, t \in NodeIds :
    /\ \A w \in WeightArgs :
         LET added == addEdge(graph, s, t, w)
             removed == removeEdge(added.graph, s, t)
         IN ~added.threw => removed.value = "true" /\ removed.graph = graph
    /\ getEdge(graph, s, t) = {} =>
         removeEdge(graph, s, t).value = "false" /\ removeEdge(graph, s, t).graph = graph

\* What the calls C7 names return, for every argument.
Observations(g) ==
  [getNode |-> [id \in NodeIds |-> getNode(g, id)],
   getEdge |-> [p \in NodeIds \X NodeIds |-> getEdge(g, p[1], p[2])],
   getAdjacencyMatrix |-> getAdjacencyMatrix(g),
   getAdjacencyList |-> getAdjacencyList(g),
   removeNode |-> [id \in NodeIds |-> removeNode(g, id)],
   getGraphData |-> getGraphData(g)]

\* C7 (as claimed): getGraphData() exposes no internal mutable state: what the
\* caller (here the layout engine) does to the records of the returned lists
\* changes the result of no later getNode, getEdge, getAdjacencyMatrix,
\* getAdjacencyList, removeNode or getGraphData call.
C7_SnapshotIsIndependent ==
  [][InitializeSimulation => Observations(graph') = Observations(graph)]_vars

\* C8 (as claimed): getAdjacencyMatrix() is N x N in node insertion order;
\* cell[i][j] is the weight of the edge from node i to node j (1 when the
\* graph is unweighted or the edge carries no weight) when there is an edge in
\* that direction -- on an undirected graph an edge serves both directions --
\* and 0 otherwise; the matrix is symmetric when the graph is undirected.
C8_MatrixMatchesEdges ==
  LET m == getAdjacencyMatrix(graph)
      n == Len(graph.nodes)
      From(e, i, j) ==
        \/ e.source = graph.nodes[i].id /\ e.target = graph.nodes[j].id
        \/ ~graph.directed /\ e.source = graph.nodes[j].id /\ e.target = graph.nodes[i].id
      Cell(e) == IF graph.weighted /\ e.weight # Undefined
                 THEN CHOOSE w \in e.weight : TRUE
                 ELSE 1
  IN /\ Len(m) = n
     /\ \A i \in 1..n : Len(m[i]) = n
     /\ \A i \in 1..n, j \in 1..n :
          /\ \A e \in EdgeSet(graph) : From(e, i, j) => m[i][j] = Cell(e)
          /\ (\A e \in EdgeSet(graph) : ~From(e, i, j)) => m[i][j] = 0
          /\ ~graph.directed => m[i][j] = m[j][i]

-----------------------------------------------------------------------------
\* Vocabulary of the traversal properties.

Traversals == {"breadthFirstTraversal", "depthFirstTraversal", "dijkstraAlgorithm"}
Running == pc \in {"bfs", "dfs", "dijkstra", "dijkstraEnd"}
Returned == pc = "returned"

\* String.prototype.includes / startsWith
Includes(text, part) ==
  \E i \in 1..(Len(text) - Len(part) + 1) : SubSeq(text, i, i + Len(part) - 1) = part
StartsWith(text, part) == Len(text) >= Len(part) /\ SubSeq(text, 1, Len(part)) = part

Last(s) == s[Len(s)]

\* C9: when the start / source id is no node of the graph, each of the three
\* traversals returns, without throwing and without entering its loop, exactly
\* one snapshot: its visited set is empty, its current node is none and its
\* description says that node <id> was not found.
C9_MissingStartReported ==
  (ret.op \in Traversals /\ startNodeId \notin NodeIdSet(graph)) =>
    /\ Returned
    /\ ~ret.threw
    /\ Len(steps) = 1
    /\ steps[1].visited = <<>>
    /\ steps[1].current = Null
    /\ Includes(steps[1].description, "node " \o startNodeId \o " not found")

\* dijkstraAlgorithm has returned for a source that is no node of a graph that
\* has nodes and an edge.
C9_Witness ==
  /\ ret.op = "dijkstraAlgorithm" /\ Returned
  /\ startNodeId \notin NodeIdSet(graph)
  /\ graph.edges # <<>>

\* The last snapshot is the "complete" one: no current node and, for BFS and
\* DFS, an empty queue / stack.
EndsComplete ==
  /\ steps # <<>>
  /\ StartsWith(Last(steps).description, "Complete:")
  /\ Last(steps).current = Null
  /\ ret.op = "breadthFirstTraversal" => Last(steps).queue = <<>>
  /\ ret.op = "depthFirstTraversal" => Last(steps).stack = <<>>

\* The snapshots a traversal of a graph with n nodes can push: every loop
\* iteration handles one node (BFS, Dijkstra) or pushes or pops one (DFS), and
\* pushes at most one snapshot per node on top of its own.
MaxSteps(n) ==
  CASE ret.op = "breadthFirstTraversal" -> 2 + n * (n + 1)
    [] ret.op = "depthFirstTraversal" -> 2 + 2 * n
    [] ret.op = "dijkstraAlgorithm" -> 3 + n * n
    [] OTHER -> 0

\* C10 (as claimed): for every graph and every start id the returned sequence
\* is non-empty and its last snapshot is the "complete" snapshot.
C10_AlwaysEndsComplete == Returned => EndsComplete

\* C10 (amended): every traversal call terminates -- each step of its loop
\* pushes at least one snapshot and the snapshots pushed never exceed
\* MaxSteps, so the loop is left after at most MaxSteps steps -- and returns a
\* non-empty sequence; when the start id is a node of the graph the last
\* snapshot is the "complete" one, with no current node and an empty queue /
\* stack.
C10_TerminatesAndEndsComplete ==
  /\ [](Returned => steps # <<>>)
  /\ []((Returned /\ startNodeId \in NodeIdSet(graph)) => EndsComplete)
  /\ [](Len(steps) <= MaxSteps(Len(graph.nodes)))
  /\ [][Running => Len(steps') > Len(steps)]_vars

\* A DFS from a node of a graph with two edges has returned after more than
\* one turn of its loop.
C10_Witness ==
  /\ ret.op = "depthFirstTraversal" /\ Returned
  /\ startNodeId \in NodeIdSet(graph)
  /\ Len(graph.edges) = 2
  /\ Len(steps) > 4

-----------------------------------------------------------------------------
\* C11: a call of breadthFirstTraversal, depthFirstTraversal or
\* dijkstraAlgorithm leaves the Graph as it was: no step of the call, from its
\* entry to its return, changes the nodes, the edges, the adjacency sets
\* (their order included) or the directed / weighted flags.
C11_TraversalLeavesGraph ==
  [][ret'.op \in Traversals => graph' = graph]_vars

\* A BFS from a node with neighbours has returned.
C11_Witness ==
  /\ ret.op = "breadthFirstTraversal" /\ Returned
  /\ startNodeId \in NodeIdSet(graph)
  /\ Adjacency(graph, startNodeId) # {}
  /\ Len(steps) > 3

\* The nodes reachable from the nodes of R through the adjacency relation.
RECURSIVE ReachableFrom(_, _)
ReachableFrom(g, R) ==
  LET N == R \cup UNION {Adjacency(g, u) : u \in R}
  IN IF N = R THEN R ELSE ReachableFrom(g, N)

\* The snapshots of the returned sequence that discover node n: BFS
\* "Discover", DFS "Expand", with n as the edge's target.
DiscoverSteps(n) ==
  {k \in 1..Len(steps) :
     /\ steps[k].targetNode = {n}
     /\ \/ ret.op = "breadthFirstTraversal" /\ StartsWith(steps[k].description, "Discover:")
        \/ ret.op = "depthFirstTraversal" /\ StartsWith(steps[k].description, "Expand:")}

\* C12 (as claimed): for an existing start node, BFS and DFS visit each node
\* reachable from the start exactly once: the start is in the visited set from
\* the first ("Initialize") snapshot on and is never discovered again, every
\* other reachable node has exactly one discover-type snapshot and is in the
\* visited set of that and of every later snapshot, and the visited set of the
\* final snapshot is the set of nodes reachable from the start.
C12_VisitsReachableOnce ==
  (Returned /\ ret.op \in {"breadthFirstTraversal", "depthFirstTraversal"}
     /\ startNodeId \in NodeIdSet(graph)) =>
    LET reach == ReachableFrom(graph, {startNodeId})
    IN /\ Range(Last(steps).visited) = reach
       /\ DiscoverSteps(startNodeId) = {}
       /\ \A j \in 1..Len(steps) : startNodeId \in Range(steps[j].visited)
       /\ \A n \in reach \ {startNodeId} :
            /\ Cardinality(DiscoverSteps(n)) = 1
            /\ \A k \in DiscoverSteps(n) : \A j \in k..Len(steps) : n \in Range(steps[j].visited)

\* The targets of the "Discover" snapshots among steps[1..k], in order.
RECURSIVE DiscoveredUpTo(_)
DiscoveredUpTo(k) ==
  IF k = 0 THEN <<>>
  ELSE IF StartsWith(steps[k].description, "Discover:")
       THEN Append(DiscoveredUpTo(k - 1), CHOOSE n \in steps[k].targetNode : TRUE)
       ELSE DiscoveredUpTo(k - 1)

\* C13: on the application's sample graph, in each of its directed / weighted
\* variants and from each start node, BFS examines the neighbours of each
\* dequeued node in the order of its adjacency set (the order in which the
\* edges were added): the "Process" snapshot of node u is followed by one
\* "Discover" / "Skip" snapshot per member of adjacency(u), in that order; the
\* nodes enter the visited set in the order of the "Discover" snapshots; and on
\* the undirected, unweighted sample graph BFS from 1 visits 1,2,3,4,5.
C13_BfsFollowsInsertionOrder ==
  (Returned /\ ret.op = "breadthFirstTraversal" /\ startNodeId \in NodeIdSet(graph)) =>
    /\ \A k \in 1..Len(steps) :
         StartsWith(steps[k].description, "Process:") =>
           LET u == CHOOSE x \in steps[k].current : TRUE
               adj == AdjacentNodes(graph, u)
           IN /\ k + Len(adj) < Len(steps)
              /\ \A i \in 1..Len(adj) :
                   /\ steps[k + i].sourceNode = {u}
                   /\ steps[k + i].targetNode = {adj[i]}
                   /\ \/ StartsWith(steps[k + i].description, "Discover:")
                      \/ StartsWith(steps[k + i].description, "Skip:")
    /\ Last(steps).visited = <<startNodeId>> \o DiscoveredUpTo(Len(steps))
    /\ (graph = createSampleGraph(FALSE, FALSE) /\ startNodeId = "1") =>
         Last(steps).visited = <<"1", "2", "3", "4", "5">>

\* BFS from node 1 of the undirected, unweighted sample graph has returned.
C13_Witness ==
  /\ ret.op = "breadthFirstTraversal" /\ Returned
  /\ graph = createSampleGraph(FALSE, FALSE)
  /\ startNodeId = "1"
  /\ Len(Last(steps).visited) = 5

\* The visit order of a recursive DFS: visit(u) scans adjacency(u) in order and
\* calls visit(n) for each neighbour n not yet visited.  v is the visit order
\* so far, u the node being scanned, i the next index in adjacency(u).
RECURSIVE RecursiveDfs(_, _, _, _)
RecursiveDfs(g, u, i, v) ==
  LET adj == AdjacentNodes(g, u)
  IN IF i > Len(adj) THEN v
     ELSE IF adj[i] \in Range(v) THEN RecursiveDfs(g, u, i + 1, v)
     ELSE RecursiveDfs(g, u, i + 1, RecursiveDfs(g, adj[i], 1, Append(v, adj[i])))

\* C14 (as claimed): for every graph and existing start node the peek-based
\* DFS visits the nodes in the order of the recursive DFS that descends into
\* the first unvisited neighbour in adjacency order; on the undirected,
\* unweighted sample graph DFS from 1 visits 1,2,3,5,4.
C14_DfsMatchesRecursive ==
  (Returned /\ ret.op = "depthFirstTraversal" /\ startNodeId \in NodeIdSet(graph)) =>
    /\ Last(steps).visited = RecursiveDfs(graph, startNodeId, 1, <<startNodeId>>)
    /\ (graph = createSampleGraph(FALSE, FALSE) /\ startNodeId = "1") =>
         Last(steps).visited = <<"1", "2", "3", "5", "4">>

\* The weights of the stored edges that lead from p to v: an edge (p,v) and, on
\* an undirected graph, an edge (v,p); an edge without weight leads nowhere.
UsableWeights(g, p, v) ==
  UNION {e.weight : e \in {x \in EdgeSet(g) :
                             \/ x.source = p /\ x.target = v
                             \/ ~g.directed /\ x.source = v /\ x.target = p}}

Min(A) == CHOOSE x \in A : \A y \in A : x <= y

\* The true shortest-path distances from source (Bellman-Ford, k rounds left).
RECURSIVE ShortestDistances(_, _, _)
ShortestDistances(g, d, k) ==
  IF k = 0 THEN d
  ELSE ShortestDistances(g,
         [v \in DOMAIN d |->
            Min({d[v]} \cup {d[p] + w : <<p, w>> \in
                   {<<q, x>> \in (DOMAIN d) \X (0..MaxWeight) :
                        d[q] < Infinity /\ x \in UsableWeights(g, q, v)}})],
         k - 1)

TrueDistances(g, sourceId) ==
  ShortestDistances(g, [v \in NodeIdSet(g) |-> IF v = sourceId THEN 0 ELSE Infinity],
                    Len(g.nodes))

\* C15 (as claimed): for every weighted graph with non-negative weights and
\* every existing source, the distance map of the final snapshot of
\* dijkstraAlgorithm is the true shortest-path distance from the source to
\* every node, +infinity for the nodes that cannot be reached.
C15_DijkstraDistancesAreShortest ==
  (Returned /\ ret.op = "dijkstraAlgorithm" /\ startNodeId \in NodeIdSet(graph)
     /\ graph.weighted) =>
    Last(steps).distances = TrueDistances(graph, startNodeId)

\* The sums of edge weights along the predecessor links from v back to the
\* source, over at most k links, each link (p, v) being an edge usable from p
\* to v; {} when the links do not reach the source or a link is no such edge.
RECURSIVE PredecessorPathCosts(_, _, _, _, _)
PredecessorPathCosts(g, previous, sourceId, v, k) ==
  IF v = sourceId THEN {0}
  ELSE IF k = 0 \/ previous[v] = Null THEN {}
  ELSE LET p == CHOOSE x \in previous[v] : TRUE
       IN IF p \notin DOMAIN previous THEN {}
          ELSE {c + w : <<c, w>> \in
                  PredecessorPathCosts(g, previous, sourceId, p, k - 1) \X UsableWeights(g, p, v)}

\* C16 (as claimed): in the final snapshot of dijkstraAlgorithm, for every
\* node with a finite distance, the predecessor links lead back to the source
\* in finitely many steps, every link (p, v) is an edge of the graph usable
\* from p to v, and the weights of these edges add up to the node's distance.
C16_PredecessorsGivePath ==
  (Returned /\ ret.op = "dijkstraAlgorithm" /\ startNodeId \in NodeIdSet(graph)) =>
    \A v \in NodeIdSet(graph) :
      Last(steps).distances[v] < Infinity =>
        Last(steps).distances[v] \in
          PredecessorPathCosts(graph, Last(steps).previous, startNodeId, v, Len(graph.nodes))

\* C17 (as claimed): on the weighted, undirected sample graph
\* dijkstraAlgorithm from node 1 ends with the distances 1:0, 2:7, 3:5, 4:8,
\* 5:12 and the predecessors 3<-1, 2<-3, 4<-2, 5<-3.
C17_SampleGraphDistances ==
  (Returned /\ ret.op = "dijkstraAlgorithm" /\ startNodeId = "1"
     /\ graph = createSampleGraph(FALSE, TRUE)) =>
    /\ Last(steps).distances = [v \in {"1", "2", "3", "4", "5"} |->
         CASE v = "1" -> 0 [] v = "2" -> 7 [] v = "3" -> 5 [] v = "4" -> 8 [] v = "5" -> 12]
    /\ Last(steps).previous = [v \in {"1", "2", "3", "4", "5"} |->
         CASE v = "1" -> Null [] v = "2" -> {"3"} [] v = "3" -> {"1"} [] v = "4" -> {"2"}
           [] v = "5" -> {"3"}]

\* a is a prefix of b.
IsPrefix(a, b) == Len(a) <= Len(b) /\ SubSeq(b, 1, Len(a)) = a

\* C18: a snapshot, once appended to the step sequence, is never changed by a
\* later step of the same run (the sequence only grows at its end); the
\* snapshot appended last holds the working state of that moment: the visited
\* set and the queue / stack of BFS / DFS, the settled set, the distances and
\* the predecessors of Dijkstra; and no snapshot shows a visited set that an
\* earlier snapshot does not agree with.
C18_SnapshotsAreCopies ==
  /\ [][(ret.op \in Traversals /\ ret'.op \in Traversals) => IsPrefix(steps, steps')]_vars
  /\ [](pc = "bfs" => Last(steps).visited = visited /\ Last(steps).queue = queue)
  /\ [](pc = "dfs" => Last(steps).visited = visited /\ Last(steps).stack = stack)
  /\ [](pc \in {"dijkstra", "dijkstraEnd"} =>
         /\ Last(steps).visited = S
         /\ Last(steps).distances = dist
         /\ Last(steps).previous = parent)
  /\ [](ret.op \in Traversals =>
         \A k \in 2..Len(steps) : IsPrefix(steps[k - 1].visited, steps[k].visited))

\* A DFS is under way that has visited a second node after its first snapshot.
C18_Witness ==
  /\ pc = "dfs"
  /\ Len(steps) > 2
  /\ Len(visited) > Len(steps[1].visited)

\* C19 (as claimed): in Dijkstra's first snapshot for an existing source the
\* settled set is {source}, the source has distance 0 and no predecessor, and
\* every other node has distance +infinity and no predecessor.
C19_InitialSnapshotAllInfinite ==
  (ret.op = "dijkstraAlgorithm" /\ startNodeId \in NodeIdSet(graph)) =>
    /\ steps[1].visited = <<startNodeId>>
    /\ steps[1].distances[startNodeId] = 0
    /\ steps[1].previous[startNodeId] = Null
    /\ \A v \in NodeIdSet(graph) \ {startNodeId} :
         steps[1].distances[v] = Infinity /\ steps[1].previous[v] = Null

\* C19 (amended): in Dijkstra's first snapshot for an existing source the
\* settled set is {source}, the source has distance 0 and no predecessor, and
\* every other node v has the weight of the edge getEdge(source, v) as its
\* distance and the source as its predecessor when that edge exists and
\* carries a weight, and distance +infinity and no predecessor otherwise.
C19_InitialSnapshotSeeded ==
  (ret.op = "dijkstraAlgorithm" /\ startNodeId \in NodeIdSet(graph)) =>
    /\ StartsWith(steps[1].description, "Initialize:")
    /\ steps[1].visited = <<startNodeId>>
    /\ steps[1].current = {startNodeId}
    /\ DOMAIN steps[1].distances = NodeIdSet(graph)
    /\ DOMAIN steps[1].previous = NodeIdSet(graph)
    /\ steps[1].distances[startNodeId] = 0
    /\ steps[1].previous[startNodeId] = Null
    /\ \A v \in NodeIdSet(graph) \ {startNodeId} :
         LET direct == {e \in getEdge(graph, startNodeId, v) : e.weight # Undefined}
         IN IF direct = {}
            THEN steps[1].distances[v] = Infinity /\ steps[1].previous[v] = Null
            ELSE /\ \A e \in direct : e.weight = {steps[1].distances[v]}
                 /\ steps[1].previous[v] = {startNodeId}

\* A Dijkstra run whose first snapshot gives one node a finite distance and
\* another node +infinity, from a source with a self-loop.
C19_Witness ==
  /\ ret.op = "dijkstraAlgorithm"
  /\ startNodeId \in NodeIdSet(graph)
  /\ getEdge(graph, startNodeId, startNodeId) # {}
  /\ \E v \in NodeIdSet(graph) \ {startNodeId} : steps[1].distances[v] < Infinity
  /\ \E v \in NodeIdSet(graph) : steps[1].distances[v] = Infinity

\* The position of node id in node insertion order.
NodeIndex(g, id) == CHOOSE i \in 1..Len(g.nodes) : g.nodes[i].id = id

\* C20 (as claimed): in a Dijkstra run every "Select" snapshot settles a node
\* that was unsettled and whose current distance is minimal among the
\* unsettled nodes, the first such node in node insertion order; the "No more
\* reachable" snapshot is emitted only when every unsettled node has distance
\* +infinity, and it ends the loop; at most n-1 nodes are selected.
C20_SelectsMinimumUnsettled ==
  (ret.op = "dijkstraAlgorithm" /\ startNodeId \in NodeIdSet(graph)) =>
    /\ \A k \in 2..Len(steps) :
         StartsWith(steps[k].description, "Select:") =>
           LET u == CHOOSE x \in steps[k].current : TRUE
               unsettled == NodeIdSet(graph) \ Range(steps[k - 1].visited)
               d == steps[k].distances
           IN /\ u \in unsettled
              /\ steps[k].visited = Append(steps[k - 1].visited, u)
              /\ d = steps[k - 1].distances
              /\ \A v \in unsettled : d[u] <= d[v]
              /\ \A v \in unsettled : d[v] = d[u] => NodeIndex(graph, u) <= NodeIndex(graph, v)
    /\ \A k \in 2..Len(steps) :
         StartsWith(steps[k].description, "No more") =>
           /\ \A v \in NodeIdSet(graph) \ Range(steps[k].visited) :
                steps[k].distances[v] = Infinity
           /\ k < Len(steps) => StartsWith(steps[k + 1].description, "Complete:")
    /\ Cardinality({k \in 1..Len(steps) : StartsWith(steps[k].description, "Select:")})
         <= Len(graph.nodes) - 1

-----------------------------------------------------------------------------
\* The node whose distance snapshot k changed with respect to snapshot k-1.
Updated(k) ==
  {v \in DOMAIN steps[k].distances : steps[k].distances[v] # steps[k - 1].distances[v]}

\* C21: Dijkstra never uses an edge whose weight is absent: every "Update"
\* snapshot changes the distance of exactly one node v, and getEdge(current, v)
\* is a stored edge that carries a weight; so on a graph whose edges carry no
\* weight (an unweighted graph, or a weighted graph whose edges were added
\* without weight) every node other than the source has distance +infinity
\* and no predecessor in every snapshot.
C21_WeightlessEdgesUnused ==
  (ret.op = "dijkstraAlgorithm" /\ startNodeId \in NodeIdSet(graph)) =>
    /\ \A k \in 2..Len(steps) :
         StartsWith(steps[k].description, "Update:") =>
           /\ Cardinality(Updated(k)) = 1
           /\ \A v \in Updated(k) : \A u \in steps[k].current :
                /\ steps[k].previous[v] = {u}
                /\ \E e \in getEdge(graph, u, v) : e.weight # Undefined
    /\ (\A e \in EdgeSet(graph) : e.weight = Undefined) =>
         \A k \in 1..Len(steps) : \A v \in NodeIdSet(graph) \ {startNodeId} :
           steps[k].distances[v] = Infinity /\ steps[k].previous[v] = Null

\* dijkstraAlgorithm has returned on a weighted graph with two edges, both
\* without weight, from a source that has a neighbour.
C21_Witness ==
  /\ ret.op = "dijkstraAlgorithm" /\ Returned
  /\ startNodeId \in NodeIdSet(graph)
  /\ graph.weighted
  /\ Len(graph.edges) = 2
  /\ \A e \in EdgeSet(graph) : e.weight = Undefined
  /\ Adjacency(graph, startNodeId) \ {startNodeId} # {}

\* The neighbours of the top of snapshot k's stack that snapshot k has not visited.
UnvisitedOfTop(k) ==
  Adjacency(graph, Last(steps[k].stack)) \ Range(steps[k].visited)

\* C22 (as claimed): in a DFS run, whenever the node on top of the stack has no
\* unvisited neighbour the next snapshot is a "Backtrack" snapshot with that
\* node popped, whose current node is the new top of the stack, or none when
\* the stack has become empty; and a "Backtrack" snapshot never pops a node
\* that still has an unvisited neighbour.
C22_BacktrackWhenExhausted ==
  (ret.op = "depthFirstTraversal" /\ startNodeId \in NodeIdSet(graph)) =>
    \A k \in 1..(Len(steps) - 1) :
      LET before == steps[k]
          after == steps[k + 1]
          popped == SubSeq(before.stack, 1, Len(before.stack) - 1)
      IN /\ (before.stack # <<>> /\ UnvisitedOfTop(k) = {}) =>
              /\ StartsWith(after.description, "Backtrack:")
              /\ after.stack = popped
              /\ after.visited = before.visited
              /\ after.current = IF popped = <<>> THEN Null ELSE {Last(popped)}
              /\ k + 2 <= Len(steps) => ~(/\ StartsWith(steps[k + 2].description, "Backtrack:")
                                          /\ steps[k + 2].stack = popped)
         /\ StartsWith(after.description, "Backtrack:") =>
              /\ before.stack # <<>>
              /\ after.stack = popped
              /\ UnvisitedOfTop(k) = {}

\* The number of hops of a shortest path from the start to v in the adjacency
\* relation: frontier is the set of nodes at d hops, seen the nodes at up to d.
RECURSIVE HopsFrom(_, _, _, _, _)
HopsFrom(g, frontier, seen, v, d) ==
  IF v \in frontier THEN d
  ELSE IF frontier = {} THEN Infinity
  ELSE LET next == UNION {Adjacency(g, u) : u \in frontier} \ seen
       IN HopsFrom(g, next, seen \cup next, v, d + 1)

Hops(v) == HopsFrom(graph, {startNodeId}, {startNodeId}, v, 0)

\* C23: BFS explores level by level.  The queue is FIFO: each "Process"
\* snapshot takes the head of the queue and each "Discover" snapshot appends
\* its target at the end; the nodes are dequeued in non-decreasing order of
\* their hop distance from the start; every "Discover" snapshot discovers its
\* target from a node exactly one hop closer to the start; and every node
\* reachable from the start other than the start is discovered.
C23_BfsLevelOrder ==
  (Returned /\ ret.op = "breadthFirstTraversal" /\ startNodeId \in NodeIdSet(graph)) =>
    LET Process == {k \in 1..Len(steps) : StartsWith(steps[k].description, "Process:")}
        Discover == {k \in 1..Len(steps) : StartsWith(steps[k].description, "Discover:")}
    IN /\ \A k \in Process :
            /\ steps[k - 1].queue # <<>>
            /\ steps[k].current = {Head(steps[k - 1].queue)}
            /\ steps[k].queue = Tail(steps[k - 1].queue)
       /\ \A k \in Process, l \in Process :
            k < l => \A u \in steps[k].current, w \in steps[l].current : Hops(u) <= Hops(w)
       /\ \A k \in Discover :
            /\ steps[k].queue = steps[k - 1].queue \o
                                  <<CHOOSE v \in steps[k].targetNode : TRUE>>
            /\ \A u \in steps[k].sourceNode, v \in steps[k].targetNode :
                 Hops(u) < Infinity /\ Hops(v) = Hops(u) + 1
       /\ \A v \in ReachableFrom(graph, {startNodeId}) \ {startNodeId} :
            \E k \in Discover : steps[k].targetNode = {v}
       /\ \A v \in ReachableFrom(graph, {startNodeId}) :
            \E k \in Process : steps[k].current = {v}

\* A BFS has returned that dequeued a node two hops from the start after two
\* nodes one hop from it.
C23_Witness ==
  /\ ret.op = "breadthFirstTraversal" /\ Returned
  /\ startNodeId \in NodeIdSet(graph)
  /\ Cardinality({v \in NodeIdSet(graph) : Hops(v) = 1}) >= 2
  /\ \E v \in NodeIdSet(graph) : Hops(v) = 2
  /\ Len(Last(steps).visited) >= 4

\* C24 (as claimed): distinct ordered pairs (source,target) of existing node
\* ids never share a derived edge id; addEdge(s,t) succeeds whenever s and t
\* exist and no stored edge has source s and target t; getEdge(s,t) only
\* returns, and removeEdge(s,t) only removes, an edge whose source is s and
\* whose target is t.
C24_EdgeIdsIdentifyPairs ==
  /\ \A s \in NodeIdSet(graph), t \in NodeIdSet(graph),
        u \in NodeIdSet(graph), v \in NodeIdSet(graph) :
       EdgeId(s, t) = EdgeId(u, v) => s = u /\ t = v
  /\ CanCall => \A s \in NodeIdSet(graph), t \in NodeIdSet(graph), w \in WeightArgs :
       (\A e \in EdgeSet(graph) : ~(e.source = s /\ e.target = t)) =>
         ~addEdge(graph, s, t, w).threw
  /\ \A s \in NodeIds, t \in NodeIds :
       /\ \A e \in getEdge(graph, s, t) : e.source = s /\ e.target = t
       /\ \A e \in EdgeSet(graph) \ EdgeSet(removeEdge(graph, s, t).graph) :
            e.source = s /\ e.target = t

\* C25: in a Dijkstra run the settled set only grows: a "Select" snapshot adds
\* exactly one node, its current node, which was not settled, and every other
\* snapshot leaves the settled set as it was; and once a node is in the
\* settled set of a snapshot, its distance and its predecessor are the same in
\* every later snapshot.
C25_SettledIsFinal ==
  (ret.op = "dijkstraAlgorithm" /\ startNodeId \in NodeIdSet(graph)) =>
    /\ \A k \in 2..Len(steps) :
         IF StartsWith(steps[k].description, "Select:")
         THEN \E u \in steps[k].current :
                /\ u \notin Range(steps[k - 1].visited)
                /\ steps[k].visited = Append(steps[k - 1].visited, u)
         ELSE steps[k].visited = steps[k - 1].visited
    /\ \A j \in 1..Len(steps), k \in 1..Len(steps) :
         j < k => \A v \in Range(steps[j].visited) :
           /\ steps[k].distances[v] = steps[j].distances[v]
           /\ steps[k].previous[v] = steps[j].previous[v]

\* dijkstraAlgorithm has returned with three settled nodes after an "Update"
\* snapshot.
C25_Witness ==
  /\ ret.op = "dijkstraAlgorithm" /\ Returned
  /\ Len(Last(steps).visited) = 3
  /\ \E k \in 1..Len(steps) : StartsWith(steps[k].description, "Update:")

\* C26 (as claimed): in a Dijkstra run on a graph with non-negative weights,
\* zero included, no snapshot records for a node a larger distance than an
\* earlier snapshot did.
C26_DistancesNeverIncrease ==
  (ret.op = "dijkstraAlgorithm" /\ startNodeId \in NodeIdSet(graph)) =>
    \A j \in 1..Len(steps), k \in 1..Len(steps) :
      j < k => \A v \in NodeIdSet(graph) : steps[k].distances[v] <= steps[j].distances[v]

\* C27: in every snapshot of a DFS run the stack is a simple path from the
\* start: it holds no node twice, every node on it is in the snapshot's
\* visited set, its bottom element, if any, is the start node, and each node
\* on it is in the adjacency set of the node directly below it.
C27_StackIsSimplePath ==
  (ret.op = "depthFirstTraversal" /\ startNodeId \in NodeIdSet(graph)) =>
    \A k \in 1..Len(steps) :
      LET st == steps[k].stack
      IN /\ Cardinality(Range(st)) = Len(st)
         /\ Range(st) \subseteq Range(steps[k].visited)
         /\ st # <<>> => st[1] = startNodeId
         /\ \A i \in 2..Len(st) : st[i] \in Adjacency(graph, st[i - 1])

\* A DFS is under way with three nodes on its stack.
C27_Witness ==
  /\ pc = "dfs"
  /\ Len(stack) = 3
  /\ Last(steps).stack = stack

-----------------------------------------------------------------------------
\* What findKey reports for key k on the table as it is now.
Found(k) ==
  FindIn(hashTable, bucketSize, collisionStrategy, hashFunctions(hashFunction, bucketSize, k), k).done

\* The slots / chain positions that hold key k.
Copies(k) ==
  IF collisionStrategy = "chaining"
  THEN {<<i, j>> \in (1..Len(hashTable)) \X (1..Cardinality(Keys)) :
          j <= Len(hashTable[i]) /\ hashTable[i][j] = k}
  ELSE IF collisionStrategy = "open-addressing"
  THEN {<<i, 1>> : i \in {j \in 1..Len(hashTable) :
                             hashTable[j].status = "filled" /\ hashTable[j].key = {k}}}
  ELSE {<<i, 1>> : i \in {j \in 1..Len(hashTable) : hashTable[j].key = {k}}}

\* C28 (as claimed): with open addressing and a fixed bucket size and hash
\* function, after any sequence of insertKey and deleteKey each key occupies at
\* most one "filled" slot, so that right after deleteKey(k) has removed k,
\* findKey(k) reports not found.
C28_OneSlotPerKey ==
  collisionStrategy = "open-addressing" =>
    \A k \in Keys :
      /\ Cardinality(Copies(k)) <= 1
      /\ (operations # <<>> /\ Last(operations).type = "delete" /\ Last(operations).key = k)
           => ~Found(k)

\* C29 (as claimed): with each of the three collision strategies, a key whose
\* insertKey succeeded and which has not been deleted since -- a key that the
\* table stores -- is reported found by findKey, after any interleaving of
\* insert, find and delete operations and of changes of the hash function,
\* as long as no change of bucket size or strategy has reset the table.
C29_StoredKeysAreFound ==
  \A k \in Keys : Copies(k) # {} => Found(k)

-----------------------------------------------------------------------------
\* The fields of a step that renderAlgorithmStatus and the visualization
\* effect read when the selected algorithm is name.
FieldsRead(name) ==
  CASE name = "bfs" -> {"visited", "current", "description", "queue"}
    [] name = "dfs" -> {"visited", "current", "description", "stack"}
    [] name = "dijkstra" -> {"visited", "current", "description", "distances", "previous"}

\* C30 (as claimed): in GraphPage, after any sequence of user events and timer
\* ticks, whenever the stored step sequence is non-empty it was computed by the
\* selected algorithm on the current graph (from one of its nodes), the step
\* on display has the fields the view of the selected algorithm reads, and
\* 0 <= stepIndex < steps.length.
C30_StepsMatchSelection ==
  pageSteps # <<>> =>
    /\ \E id \in NodeIdsOf(graph) : pageSteps = AlgorithmSteps(algorithm, graph, id)
    /\ 0 <= stepIndex /\ stepIndex < Len(pageSteps)
    /\ FieldsRead(algorithm) \subseteq DOMAIN pageSteps[stepIndex + 1]

====
